---------------------------- MODULE Spec2Model ----------------------------
(*
  MPEG transport-stream demultiplexer of library/jni/TSExtractorNative.c:
  the packet framer (_refill_data, tsparser_parse_one_packet), the payload
  handler list, the section and PES reassemblers, the sample pool and the
  JNI entry points nativeRead / nativeIsReadFinished / nativeGetSampleRateIndex
  / nativeGetChannelConfigIndex.

  C arrays are 0-based, TLA+ sequences 1-based: byte i of a C buffer b is
  b[i + 1] here.  Pointers are indices into the heaps `handlers' and
  `samples'; NULL is 0.
*)
EXTENDS Integers, Sequences, FiniteSets, TLC

(* ------------------------------------------------------------------ *)
(* Program constants                                                   *)
(* ------------------------------------------------------------------ *)
RESULT_NEED_MORE_DATA == 1
RESULT_END_OF_STREAM == 2
RESULT_READ_SAMPLE_FULL == 3
TYPE_VIDEO == 0
TYPE_AUDIO == 1
TYPE_COUNT == 2
SAMPLE_FLAG_SYNC == 1
PacketSize == 188
BUFFER_SIZE == 200 * PacketSize
SampleInitialSize == 64 * 1024
STREAM_TYPE_AAC_ADTS == 15
STREAM_TYPE_H264 == 27
PARSE_ONE_PACKET_AGAIN == 0
PARSE_ONE_PACKET_WAIT == 1
PARSE_ONE_PACKET_FINISHED == 2
NULL == 0

Types == {TYPE_VIDEO, TYPE_AUDIO}

(* ------------------------------------------------------------------ *)
(* Bounds of the model                                                 *)
(* ------------------------------------------------------------------ *)
\* the source returns 0, ChunkUnit, 2*ChunkUnit, ... MaxChunkUnits*ChunkUnit bytes
ChunkUnit == 94
MaxChunkUnits == 2
\* number of elementary-stream packets after the PAT and the PMT
MaxTail == 2
\* bytes after the last whole packet of a stream of length 188*k + r
TrailBytes == 50
\* program_info_length of the PMT section that spans two packets
LongInfo == 170
\* number of full continuation packets of the unit that outgrows 64 KiB
GrowPackets == 357
\* threads that use the sample pool at the same time
PoolThreads == 2
\* an adaptation_field_length that does not fit the packet
LongAdaptation == 200

(* ------------------------------------------------------------------ *)
(* Bit arithmetic on bytes                                             *)
(* ------------------------------------------------------------------ *)
Pow2(n) == 2 ^ n
\* (x >> lo) & (2^n - 1)
BitField(x, lo, n) == (x \div Pow2(lo)) % Pow2(n)
\* x & mask for a mask of n consecutive one bits starting at bit lo
AndMask(x, lo, n) == BitField(x, lo, n) * Pow2(lo)
Min(a, b) == IF a < b THEN a ELSE b
Max(a, b) == IF a < b THEN b ELSE a

\* byte i (0-based) of buffer b; bytes never written read as 0
\* (the working buffer is a zero-initialised Java byte array)
ByteAt(b, i) == IF i >= 0 /\ i < Len(b) THEN b[i + 1] ELSE 0

\* memcpy(dst + at, src, n) on a buffer modelled by the prefix written so far
MemCopy(dst, at, src) ==
  LET n == Len(src)
      before == IF Len(dst) >= at THEN SubSeq(dst, 1, at)
                ELSE dst \o [i \in 1..(at - Len(dst)) |-> 0]
      after == IF Len(dst) > at + n THEN SubSeq(dst, at + n + 1, Len(dst)) ELSE << >>
  IN before \o src \o after


(* ------------------------------------------------------------------ *)
(* Input streams: the bytes on the wire                                *)
(* ------------------------------------------------------------------ *)
\* PIDs and payload sizes used by the generated streams
Pid == [pmt |-> 32, pmt2 |-> 33, video |-> 256, audio |-> 257, audio2 |-> 258, other |-> 511]

SeqOf(n, b) == [i \in 1..n |-> b]

\* One transport packet: sync byte, unit_start / PID, adaptation_field_control /
\* continuity_counter, an optional adaptation field of af stuffing bytes
\* (af = -1: none), the body, and 0xFF padding up to 188 bytes.
TsPacket(pid, us, cc, af, body) ==
  LET head == << 71, us * 64 + (pid \div 256), pid % 256,
                 (IF af >= 0 THEN 48 ELSE 16) + cc >>
      adapt == IF af < 0 THEN << >>
               ELSE IF af = 0 THEN << 0 >>
               ELSE << af, 0 >> \o SeqOf(af - 1, 255)
      used == head \o adapt \o body
  IN IF Len(used) >= PacketSize THEN SubSeq(used, 1, PacketSize)
     ELSE used \o SeqOf(PacketSize - Len(used), 255)

\* a PSI section preceded by its pointer_field: table_id, 12-bit section_length,
\* then the section_length bytes `rest'
SectionBody(tableID, rest) ==
  << 0, tableID, 176 + (Len(rest) \div 256), Len(rest) % 256 >> \o rest

Crc == << 222, 173, 190, 239 >>

RECURSIVE PatEntries(_)
PatEntries(pids) ==
  IF pids = << >> THEN << >>
  ELSE << 0, Len(pids), 224 + (Head(pids) \div 256), Head(pids) % 256 >>
       \o PatEntries(Tail(pids))

\* PAT section listing the PMT PIDs `pids'
PatBody(pids) ==
  SectionBody(0, << 0, 1, 193, 0, 0 >> \o PatEntries(pids) \o Crc)

RECURSIVE PmtEntries(_)
PmtEntries(es) ==
  IF es = << >> THEN << >>
  ELSE << Head(es).st, 224 + (Head(es).pid \div 256), Head(es).pid % 256, 240, 0 >>
       \o PmtEntries(Tail(es))

\* PMT section with stream entries es = << [st |-> stream_type, pid |-> PID], ... >>
PmtBody(es) ==
  SectionBody(2, << 0, 1, 193, 0, 0, 224 + (Pid.video \div 256), Pid.video % 256, 240, 0 >>
                 \o PmtEntries(es) \o Crc)

\* the 5-byte PTS field of a PES header for the 33-bit value pts
PtsField(pts) ==
  << 33 + 2 * BitField(pts, 30, 3), BitField(pts, 22, 8),
     2 * BitField(pts, 15, 7) + 1, BitField(pts, 7, 8),
     2 * BitField(pts, 0, 7) + 1 >>

\* PES header: start code, stream_id, PES_packet_length, marker byte, flags,
\* header_data_length, optional PTS
PesHeader(streamID, declared, withPts, pts) ==
  << 0, 0, 1, streamID, declared \div 256, declared % 256, 128,
     IF withPts THEN 128 ELSE 0, IF withPts THEN 5 ELSE 0 >>
  \o (IF withPts THEN PtsField(pts) ELSE << >>)

\* n payload bytes that identify the packet (tag) and the position in it
Payload(tag, n) == [j \in 1..n |-> (tag * 32 + j) % 251]

AdtsHeader == << 255, 241, 80, 128 >>

\* a PES packet stuffed by an adaptation field so that body ends the packet
Stuffed(pid, us, cc, body) ==
  IF Len(body) >= PacketSize - 4 THEN TsPacket(pid, us, cc, -1, body)
  ELSE TsPacket(pid, us, cc, PacketSize - 5 - Len(body), body)

\* Packet templates of the generated streams.  A stream is a sequence of
\* packet descriptors [k, pid, us, cc, af, body, hl]: k names the template,
\* hl is the number of leading body bytes that are PES header.
TailKinds == {"VS", "VC", "VG", "AS", "XX"}

KindPid(k) ==
  CASE k \in {"VS", "VC", "VG"} -> Pid.video
    [] k = "AS" -> Pid.audio
    [] OTHER -> Pid.other

\* continuity counter of the i-th tail packet: one more than the previous
\* packet of its PID (the first is 1), plus 4 for every "VG" gap so far
CcOf(ks, i) ==
  (Cardinality({j \in 1..i : KindPid(ks[j]) = KindPid(ks[i])})
   + 4 * Cardinality({j \in 1..i : ks[j] = "VG"})) % 16

Desc(k, pid, us, cc, af, body, hl) ==
  [k |-> k, pid |-> pid, us |-> us, cc |-> cc, af |-> af, body |-> body, hl |-> hl]

StuffOf(body) == IF Len(body) >= PacketSize - 4 THEN -1 ELSE PacketSize - 5 - Len(body)

TailDesc(ks, i) ==
  LET k == ks[i]
      cc == CcOf(ks, i)
      body == CASE k = "VS" -> PesHeader(224, 3 + 5 + 6, TRUE, 90 * i) \o Payload(i, 6)
                [] k = "VC" -> Payload(i, 5)
                [] k = "VG" -> Payload(i, PacketSize - 4)
                [] k = "AS" -> PesHeader(192, 0, FALSE, 0) \o AdtsHeader \o Payload(i, 3)
                [] OTHER -> Payload(i, 4)
      hl == CASE k = "VS" -> 14 [] k = "AS" -> 9 [] OTHER -> 0
  IN Desc(k, KindPid(k), IF k \in {"VS", "AS"} THEN 1 ELSE 0, cc, StuffOf(body), body, hl)

PatDesc(pids) == Desc("PAT", 0, 1, 1, -1, PatBody(pids), 0)
PmtDesc(pid, es) == Desc("PMT", pid, 1, 1, -1, PmtBody(es), 0)

Entry(st, pid) == [st |-> st, pid |-> pid]

\* the program tables most generated streams start with: one program, whose
\* PMT lists one AAC-ADTS and one H.264 stream
BasicTables ==
  [pat |-> << Pid.pmt >>,
   pmt |-> << Entry(STREAM_TYPE_AAC_ADTS, Pid.audio),
              Entry(STREAM_TYPE_H264, Pid.video) >>]

\* other program tables: a PMT with a second AAC-ADTS entry after the first
\* H.264 and AAC-ADTS entries
OtherTables ==
  { [pat |-> << Pid.pmt >>,
     pmt |-> << Entry(STREAM_TYPE_H264, Pid.video),
                Entry(STREAM_TYPE_AAC_ADTS, Pid.audio),
                Entry(STREAM_TYPE_AAC_ADTS, Pid.audio2) >>] }

TailsOfLen(n) == [1..n -> TailKinds]
Tails == UNION {TailsOfLen(n) : n \in 0..MaxTail}

\* the stream: a PAT packet, a PMT packet on the first program's PID, the tail
\* packets and r trailing bytes; pat and pmt record what the tables declare
MkStream(tables, ks, r) ==
  [pkts |-> << PatDesc(tables.pat), PmtDesc(tables.pat[1], tables.pmt) >>
            \o [i \in 1..Len(ks) |-> TailDesc(ks, i)],
   trail |-> r, pat |-> tables.pat, pmt |-> tables.pmt]

\* every tail after the basic tables, with and without trailing bytes; the
\* other tables followed by one audio and one video unit
Streams ==
  { MkStream(BasicTables, ks, r) : ks \in Tails, r \in {0, TrailBytes} }
  \cup { MkStream(t, << "AS", "VS" >>, 0) : t \in OtherTables }

\* PMT section whose program_info_length is n (n descriptor bytes precede
\* the stream entries), so that the section spans two packets
PmtBodyLong(es, n) ==
  SectionBody(2, << 0, 1, 193, 0, 0, 224 + (Pid.video \div 256), Pid.video % 256,
                    240 + (n \div 256), n % 256 >>
                 \o SeqOf(n, 5) \o PmtEntries(es) \o Crc)

\* the packets of a stream given as a sequence of descriptors
StreamOf(pkts, pat, pmt) == [pkts |-> pkts, trail |-> 0, pat |-> pat, pmt |-> pmt]

TailPkts(ks) == [i \in 1..Len(ks) |-> TailDesc(ks, i)]

\* Streams with other program tables.
\* two programs, each with its PMT
TwoProgramStream ==
  StreamOf(<< PatDesc(<< Pid.pmt, Pid.pmt2 >>),
              PmtDesc(Pid.pmt, BasicTables.pmt),
              PmtDesc(Pid.pmt2, << Entry(STREAM_TYPE_AAC_ADTS, Pid.audio2),
                                   Entry(STREAM_TYPE_H264, Pid.other) >>) >>
           \o TailPkts(<< "AS", "VS" >>),
           << Pid.pmt, Pid.pmt2 >>, BasicTables.pmt)

\* a PAT that lists the same PMT PID twice, and the PMT sent twice
RepeatedPatStream ==
  StreamOf(<< PatDesc(<< Pid.pmt, Pid.pmt >>),
              PmtDesc(Pid.pmt, BasicTables.pmt),
              Desc("PMT", Pid.pmt, 1, 2, -1, PmtBody(BasicTables.pmt), 0) >>
           \o TailPkts(<< "AS", "VS" >>),
           << Pid.pmt, Pid.pmt >>, BasicTables.pmt)

\* a PMT that declares one PID for its audio and its video stream
SamePidStream ==
  LET es == << Entry(STREAM_TYPE_AAC_ADTS, Pid.video), Entry(STREAM_TYPE_H264, Pid.video) >>
  IN StreamOf(<< PatDesc(<< Pid.pmt >>), PmtDesc(Pid.pmt, es) >>
              \o TailPkts(<< "VS", "VS" >>),
              << Pid.pmt >>, es)

\* a PAT section without program entry (section_length 9)
EmptyPatStream ==
  StreamOf(<< PatDesc(<< >>), PmtDesc(Pid.pmt, BasicTables.pmt) >>
           \o TailPkts(<< "AS", "VS" >>),
           << >>, BasicTables.pmt)

\* a PMT section carried by two packets: a unit-start packet and a continuation
LongPmtStream ==
  LET full == PmtBodyLong(BasicTables.pmt, LongInfo)
  IN StreamOf(<< PatDesc(<< Pid.pmt >>),
                 Desc("PMT", Pid.pmt, 1, 1, -1, SubSeq(full, 1, PacketSize - 4), 0),
                 Desc("SEC", Pid.pmt, 0, 2, -1, SubSeq(full, PacketSize - 3, Len(full)), 0) >>
              \o TailPkts(<< "AS", "VS" >>),
              << Pid.pmt >>, BasicTables.pmt)

\* a packet on PID 0 without unit_start ahead of the PAT
NoStartStream ==
  StreamOf(<< Desc("SEC", 0, 0, 1, -1, PatBody(<< Pid.pmt2 >>), 0),
              Desc("PAT", 0, 1, 2, -1, PatBody(<< Pid.pmt >>), 0),
              PmtDesc(Pid.pmt, BasicTables.pmt) >>
           \o TailPkts(<< "AS", "VS" >>),
           << Pid.pmt >>, BasicTables.pmt)

TableStreams ==
  { TwoProgramStream, RepeatedPatStream, SamePidStream, EmptyPatStream,
    LongPmtStream, NoStartStream }

\* three unit starts after the basic tables: a sample returned by a read is
\* recycled before the third unit is created
PoolStreams ==
  { MkStream(BasicTables, ks, 0) :
      ks \in { << "VS", "VS", "VS" >>, << "VS", "VS", "AS" >>, << "AS", "AS", "VS" >> } }

\* an audio unit-start packet whose elementary-stream bytes start with hdr
AudioPkt(cc, hdr) ==
  LET body == PesHeader(192, 0, FALSE, 0) \o hdr \o Payload(cc, 3)
  IN Desc("AS", Pid.audio, 1, cc, StuffOf(body), body, 9)

\* four audio units: the first without the ADTS sync word in its first 12
\* bits, the second and the third with different ADTS headers
AdtsStream ==
  StreamOf(<< PatDesc(BasicTables.pat), PmtDesc(Pid.pmt, BasicTables.pmt),
              AudioPkt(1, << 255, 225, 80, 128 >>),
              AudioPkt(2, AdtsHeader),
              AudioPkt(3, << 255, 240, 45, 64 >>),
              AudioPkt(4, AdtsHeader) >>,
           BasicTables.pat, BasicTables.pmt)

\* a video unit of a unit-start and a continuation packet, whose PES header
\* declares the size of the unit-start's payload alone, then another unit
MismatchStream == MkStream(BasicTables, << "VS", "VC", "VS" >>, 0)

\* a video unit start, then a continuation packet whose adaptation_field_length
\* byte is LongAdaptation, more than the 183 bytes a packet has left for it
LongAdaptStream ==
  StreamOf(<< PatDesc(BasicTables.pat), PmtDesc(Pid.pmt, BasicTables.pmt) >>
           \o TailPkts(<< "VS" >>)
           \o << Desc("VC", Pid.video, 0, 2, LongAdaptation, << >>, 0) >>,
           BasicTables.pat, BasicTables.pmt)

UnitStreams == { AdtsStream, MismatchStream, LongAdaptStream }

\* a video unit of a unit-start packet and GrowPackets continuation packets
\* of 184 payload bytes, then another unit start
GrowStream ==
  MkStream(BasicTables, << "VS" >> \o [i \in 1..GrowPackets |-> "VG"] \o << "VS" >>, 0)

PacketBytes(d) == TsPacket(d.pid, d.us, d.cc, d.af, d.body)

StreamLen(st) == PacketSize * Len(st.pkts) + st.trail

RECURSIVE Concat(_, _, _)
Concat(st, lo, hi) ==
  IF lo > hi THEN << >>
  ELSE (IF lo <= Len(st.pkts) THEN PacketBytes(st.pkts[lo]) ELSE SeqOf(st.trail, 71))
       \o Concat(st, lo + 1, hi)

\* bytes [from, from + n) of the stream (0-based)
StreamBytes(st, from, n) ==
  IF n = 0 THEN << >>
  ELSE LET lo == from \div PacketSize
           hi == (from + n - 1) \div PacketSize
           all == Concat(st, lo + 1, hi + 1)
       IN SubSeq(all, from - lo * PacketSize + 1, from - lo * PacketSize + n)

(* ------------------------------------------------------------------ *)
(* State                                                               *)
(* ------------------------------------------------------------------ *)
VARIABLES
  tsp,              \* struct TSParser
  handlers,         \* heap of PayloadHandler / SectionHandler / PESHandler structs
  samples,          \* heap of Sample structs
  recycledSamples,  \* static Sample *recycledSamples
  total_size,       \* static int total_size
  sampleMutex,      \* static pthread_mutex_t sampleMutex: NULL or the thread that holds it
  threads,          \* further threads of the process inside the pool functions
  stream,           \* the input stream behind tsp->inputStream
  srcPos,           \* number of stream bytes the source has handed out
  srcEnded,         \* the source has returned -1
  pc,               \* the JNI call in progress and its position
  result,           \* the last completed call, its return value and its SampleHolder
  diag,             \* diagnostics written to the log so far
  hist,             \* history: units created / enqueued / returned, packets parsed
  crashed           \* the process has faulted (NULL dereference, wild memcpy)

vars == << tsp, handlers, samples, recycledSamples, total_size, sampleMutex, threads,
           stream, srcPos, srcEnded, pc, result, diag, hist, crashed >>

\* the part of the state the C functions read and write, as one record
World ==
  [tsp |-> tsp, handlers |-> handlers, samples |-> samples,
   recycledSamples |-> recycledSamples, total_size |-> total_size,
   stream |-> stream, srcPos |-> srcPos,
   srcEnded |-> srcEnded, diag |-> diag, hist |-> hist, crashed |-> crashed]

Log(w, what) == [w EXCEPT !.diag = @ \cup {what}]
Crash(w, what) == [w EXCEPT !.crashed = TRUE, !.diag = @ \cup {what}]

(* ------------------------------------------------------------------ *)
(* Sample pool                                                         *)
(* ------------------------------------------------------------------ *)
NewSample ==
  [data |-> << >>, position |-> 0, maxSize |-> SampleInitialSize, timeUs |-> 0,
   next |-> NULL, unit |-> 0]

\* faulty variant: the free list is never used
sample_create_alwaysAllocates(w) ==
  LET u == w.hist.units + 1
      w1 == [w EXCEPT !.hist.units = u]
  IN [w |-> [w1 EXCEPT !.samples = Append(@, [NewSample EXCEPT !.unit = u]),
                       !.total_size = @ + SampleInitialSize],
      s |-> Len(w.samples) + 1]

\* sample_create: [w |-> world after, s |-> the sample]
sample_create(w) ==
  LET u == w.hist.units + 1
      w1 == [w EXCEPT !.hist.units = u]
  IN IF w.recycledSamples # NULL
     THEN LET s == w.recycledSamples
          IN [w |-> [w1 EXCEPT !.recycledSamples = w.samples[s].next,
                               !.samples[s].position = 0,
                               !.samples[s].timeUs = 0,
                               !.samples[s].next = NULL,
                               !.samples[s].unit = u],
              s |-> s]
     ELSE [w |-> [w1 EXCEPT !.samples = Append(@, [NewSample EXCEPT !.unit = u]),
                       !.total_size = @ + SampleInitialSize],
           s |-> Len(w.samples) + 1]

\* sample_destroy with recyle = 1
sample_destroy(w, s) ==
  [w EXCEPT !.samples[s].next = w.recycledSamples, !.recycledSamples = s]

\* faulty variant: the buffer keeps its size
sample_resize_keepsCapacity(w, s, newSize) == w

\* sample_resize: a buffer of newSize bytes that starts with the maxSize
\* bytes of the old one
sample_resize(w, s, newSize) ==
  [w EXCEPT !.samples[s].data =
               IF Len(@) > w.samples[s].maxSize THEN SubSeq(@, 1, w.samples[s].maxSize)
               ELSE @,
            !.total_size = (@ - w.samples[s].maxSize) + newSize,
            !.samples[s].maxSize = newSize]

(* ------------------------------------------------------------------ *)
(* Per-type sample queues: head pointer and pointer to the last link   *)
(* ------------------------------------------------------------------ *)
HeadSlot(type) == [k |-> "head", i |-> type]
NextSlot(s) == [k |-> "next", i |-> s]

\* *slot = s
StoreSlot(w, slot, s) ==
  IF slot.k = "head" THEN [w EXCEPT !.tsp.sampleHead[slot.i] = s]
  ELSE [w EXCEPT !.samples[slot.i].next = s]

\* faulty variant: the tail pointer is not advanced (line 257 missing)
EnqueueSample_tailNotAdvanced(w, type, s) ==
  LET w1 == StoreSlot(w, w.tsp.sampleLastNext[type], s)
  IN [w1 EXCEPT !.hist.enq[type] = Append(@, w.samples[s].unit)]

\* *(tsp->sampleLastNext[type]) = s; tsp->sampleLastNext[type] = &s->next;
EnqueueSample(w, type, s) ==
  LET w1 == StoreSlot(w, w.tsp.sampleLastNext[type], s)
  IN [w1 EXCEPT !.tsp.sampleLastNext[type] = NextSlot(s),
                !.hist.enq[type] = Append(@, w.samples[s].unit)]

(* ------------------------------------------------------------------ *)
(* Payload handler list                                                *)
(* ------------------------------------------------------------------ *)
NewHandler(kind, pid, head) ==
  [live |-> TRUE, kind |-> kind, pid |-> pid, next |-> head,
   isPES |-> 0, cc_counter |-> 0,
   tableID |-> 0, section |-> << >>, sectionMaxSize |-> 0,
   sectionLength |-> 0, sectionWriteOffset |-> 0,
   type |-> 0, length |-> 0, currentSample |-> NULL]

\* payload_handler_init on a freshly zeroed handler: push at the list head
payload_handler_init(w, kind, pid) ==
  LET h == Len(w.handlers) + 1
  IN [w EXCEPT !.handlers = Append(@, NewHandler(kind, pid, w.tsp.activePayloadHandlerHead)),
               !.tsp.activePayloadHandlerHead = h]

RECURSIVE Unlink(_, _, _, _)
Unlink(w, ph, cur, prev) ==
  IF cur = NULL THEN w
  ELSE IF cur = ph
       THEN IF prev # NULL
            THEN [w EXCEPT !.handlers[prev].next = w.handlers[cur].next]
            ELSE [w EXCEPT !.tsp.activePayloadHandlerHead = w.handlers[cur].next]
       ELSE Unlink(w, ph, w.handlers[cur].next, cur)

\* faulty variant: the handler is freed but left on the active list
payload_handler_exit_notUnlinked(w, ph) == [w EXCEPT !.handlers[ph].live = FALSE]

\* payload_handler_exit: unlink and free
payload_handler_exit(w, ph) ==
  LET w1 == Unlink(w, ph, w.tsp.activePayloadHandlerHead, NULL)
  IN [w1 EXCEPT !.handlers[ph].live = FALSE]

section_handler_exit(w, sh) == payload_handler_exit(w, sh)

pes_handler_create(w, pid, type) ==
  LET w1 == payload_handler_init(w, "PES", pid)
      h == Len(w1.handlers)
  IN [w1 EXCEPT !.handlers[h].type = type, !.handlers[h].isPES = 1]

pmt_handler_create(w, pid) ==
  LET w1 == payload_handler_init(w, "PMT", pid)
      h == Len(w1.handlers)
  IN [w1 EXCEPT !.handlers[h].tableID = 2]

pat_handler_create(w, pid) ==
  LET w1 == payload_handler_init(w, "PAT", pid)
      h == Len(w1.handlers)
  IN [w1 EXCEPT !.handlers[h].tableID = 0]

(* ------------------------------------------------------------------ *)
(* Section handlers (PAT, PMT)                                         *)
(* ------------------------------------------------------------------ *)
\* packet[i] for the packet that starts at tsp->data + base
Pkt(w, base, i) == ByteAt(w.tsp.data, base + i)
\* the n bytes packet[off .. off + n)
PktSlice(w, base, off, n) ==
  IF n > 0 /\ base + off >= 0 /\ base + off + n <= Len(w.tsp.data)
  THEN SubSeq(w.tsp.data, base + off + 1, base + off + n)
  ELSE [j \in 1..n |-> ByteAt(w.tsp.data, base + off + j - 1)]

RECURSIVE PatLoop(_, _, _, _)
\* for (i = 5; i < dataLength - 4; ) { i += 2; pmt_pid = ...; i += 2; pmt_handler_create }
PatLoop(w, sh, i, dataLength) ==
  IF ~(i < dataLength - 4) THEN w
  ELSE LET data == w.handlers[sh].section
           pmt_pid == AndMask(ByteAt(data, i + 2), 0, 5) * 256 + ByteAt(data, i + 3)
           w1 == [w EXCEPT !.tsp.pmt_pid = pmt_pid]
       IN PatLoop(pmt_handler_create(w1, pmt_pid), sh, i + 4, dataLength)

pat_handler_handle_section(w, sh, dataLength) ==
  section_handler_exit(PatLoop(w, sh, 5, dataLength), sh)

\* faulty variant: an entry of an already matched type gets a handler too
PmtRole_noFirstOnly(audio_handler, video_handler, streamType) ==
  IF streamType = STREAM_TYPE_AAC_ADTS THEN "audio"
  ELSE IF streamType = STREAM_TYPE_H264 THEN "video"
  ELSE "none"

\* lines 364-370: which handler, if any, a stream entry of the PMT gets
PmtRole(audio_handler, video_handler, streamType) ==
  IF audio_handler = NULL /\ streamType = STREAM_TYPE_AAC_ADTS THEN "audio"
  ELSE IF video_handler = NULL /\ streamType = STREAM_TYPE_H264 THEN "video"
  ELSE "none"

RECURSIVE PmtLoop(_, _, _, _, _, _)
\* the while loop of pmt_handler_handle_section; audio / video are the
\* locals audio_handler / video_handler
PmtLoop(w, sh, i, dataLength, audio, video) ==
  IF ~(i < dataLength - 4) THEN w
  ELSE LET data == w.handlers[sh].section
           streamType == ByteAt(data, i)
           streamPID == AndMask(ByteAt(data, i + 1), 0, 5) * 256 + ByteAt(data, i + 2)
           ES_info_length == AndMask(ByteAt(data, i + 3), 0, 4) * 256 + ByteAt(data, i + 4)
           j == i + 5 + ES_info_length
           role == PmtRole(audio, video, streamType)
       IN IF role = "audio"
          THEN LET w1 == pes_handler_create(w, streamPID, TYPE_AUDIO)
               IN PmtLoop(w1, sh, j, dataLength, Len(w1.handlers), video)
          ELSE IF role = "video"
          THEN LET w1 == pes_handler_create(w, streamPID, TYPE_VIDEO)
               IN PmtLoop(w1, sh, j, dataLength, audio, Len(w1.handlers))
          ELSE PmtLoop(w, sh, j, dataLength, audio, video)

pmt_handler_handle_section(w, sh, dataLength) ==
  LET data == w.handlers[sh].section
      program_info_length == AndMask(ByteAt(data, 7), 0, 4) * 256 + ByteAt(data, 8)
      i == 7 + 2 + program_info_length
  IN section_handler_exit(PmtLoop(w, sh, i, dataLength, NULL, NULL), sh)

\* sh->handleSection(sh, sh->section, sectionLength)
handleSection(w, sh, sectionLength) ==
  IF w.handlers[sh].kind = "PAT" THEN pat_handler_handle_section(w, sh, sectionLength)
  ELSE pmt_handler_handle_section(w, sh, sectionLength)

\* history entry of one call sh->handleSection(sh, section, sectionLength)
SectionCall(sh, section, sectionLength) ==
  [sh |-> sh, length |-> sectionLength,
   data |-> SubSeq(section, 1, sectionLength)]

\* faulty variant: the section header is taken for section data
SectionDataOffset_atHeader(offset0) == offset0

\* where the section data starts in a packet that starts a section: after
\* pointer_field, table_id and the two bytes that hold section_length
SectionDataOffset(offset0) == offset0 + 4

\* faulty variant: the rest of the packet is copied whatever the section needs
SectionCopy_wholePacket(left, avail) == avail

\* the number of bytes a packet contributes: the bytes it has after offset,
\* cut to the bytes the section still needs
SectionCopy(left, avail) == IF left < avail THEN left ELSE avail

section_handler_handle_payload(w, sh, base, offset0, unitStart) ==
  LET h0 == w.handlers[sh]
      idle == h0.sectionLength = 0
      \* offset++ (pointer_field), tableID = packet[offset++]
      tableID == Pkt(w, base, offset0 + 1)
      declared == AndMask(Pkt(w, base, offset0 + 2), 0, 4) * 256 + Pkt(w, base, offset0 + 3)
      offset == IF idle THEN SectionDataOffset(offset0) ELSE offset0
      w1 == IF idle /\ h0.tableID # tableID THEN Log(w, "unexpected tableID") ELSE w
      grow == idle /\ declared > h0.sectionMaxSize
      w2 == IF idle
            THEN [w1 EXCEPT !.handlers[sh].sectionLength = declared,
                            !.handlers[sh].section = IF grow THEN << >> ELSE @,
                            !.handlers[sh].sectionMaxSize = IF grow THEN declared * 2 ELSE @,
                            !.handlers[sh].sectionWriteOffset = 0]
            ELSE w1
      h == w2.handlers[sh]
      copy == SectionCopy(h.sectionLength - h.sectionWriteOffset, PacketSize - offset)
  IN IF copy < 0 THEN Crash(w2, "memcpy with negative size")
     ELSE LET w3 == [w2 EXCEPT
                       !.handlers[sh].section =
                          MemCopy(@, h.sectionWriteOffset, PktSlice(w, base, offset, copy)),
                       !.handlers[sh].sectionWriteOffset = @ + copy]
          IN IF w3.handlers[sh].sectionWriteOffset = w3.handlers[sh].sectionLength
             THEN handleSection(
                    [w3 EXCEPT !.handlers[sh].sectionLength = 0,
                               !.hist.sections =
                                  Append(@, SectionCall(sh, w3.handlers[sh].section,
                                                        w3.handlers[sh].sectionLength))],
                    sh, w3.handlers[sh].sectionLength)
             ELSE w3

(* ------------------------------------------------------------------ *)
(* PES handler                                                         *)
(* ------------------------------------------------------------------ *)
\* the 5-byte PTS field at packet[offset..], as the code assembles it
DecodePts(w, base, offset) ==
  AndMask(Pkt(w, base, offset), 1, 3) * Pow2(28)
  + Pkt(w, base, offset + 1) * Pow2(21)
  + AndMask(Pkt(w, base, offset + 2), 1, 7) * Pow2(13)
  + Pkt(w, base, offset + 3) * Pow2(6)
  + (AndMask(Pkt(w, base, offset + 4), 1, 7) \div 4)

\* the ADTS inspection of the finished audio sample (lines 261-271)
InspectAdts(w, s) ==
  LET h == w.samples[s].data
  IN IF ByteAt(h, 0) # 255 \/ AndMask(ByteAt(h, 1), 4, 4) # 240
     THEN Log(w, "no ADTS sync")
     ELSE [w EXCEPT !.tsp.sampleRateIndex = AndMask(ByteAt(h, 2), 2, 4) \div 4,
                    !.tsp.channelConfigIndex =
                       AndMask(ByteAt(h, 2), 0, 1) * 4 + (AndMask(ByteAt(h, 3), 6, 2) \div 64),
                    !.tsp.audioConfigFound = 1]

\* faulty variant: a sample whose size is not the declared one is not queued
OutputPrevious_dropsOnMismatch(w, ph) ==
  LET h == w.handlers[ph]
      s == h.currentSample
      bad == h.length # 0 /\ h.length # w.samples[s].position
      w1 == IF bad THEN Log(w, "PES length") ELSE EnqueueSample(w, h.type, s)
      w3 == IF h.type = TYPE_AUDIO /\ w.tsp.audioConfigFound = 0
            THEN InspectAdts(w1, s) ELSE w1
  IN [w3 EXCEPT !.handlers[ph].currentSample = NULL]

\* faulty variant: every finished audio sample is inspected
OutputPrevious_inspectsEveryUnit(w, ph) ==
  LET h == w.handlers[ph]
      s == h.currentSample
      w1 == EnqueueSample(w, h.type, s)
      w2 == IF h.length # 0 /\ h.length # w.samples[s].position
            THEN Log(w1, "PES length") ELSE w1
      w3 == IF h.type = TYPE_AUDIO THEN InspectAdts(w2, s) ELSE w2
  IN [w3 EXCEPT !.handlers[ph].currentSample = NULL]

\* "output previous packet" (lines 253-274)
OutputPrevious(w, ph) ==
  LET h == w.handlers[ph]
      s == h.currentSample
      w1 == EnqueueSample(w, h.type, s)
      w2 == IF h.length # 0 /\ h.length # w.samples[s].position
            THEN Log(w1, "PES length") ELSE w1
      w3 == IF h.type = TYPE_AUDIO /\ w.tsp.audioConfigFound = 0
            THEN InspectAdts(w2, s) ELSE w2
  IN [w3 EXCEPT !.handlers[ph].currentSample = NULL]

\* faulty variant: the continuation payload is copied to the start of the buffer
pes_append_atStart(w, s, base, offset) ==
  IF s = NULL THEN Crash(w, "NULL currentSample")
  ELSE IF PacketSize - offset < 0 THEN Crash(w, "memcpy with negative size")
  ELSE [w EXCEPT !.samples[s].data =
                    MemCopy(@, 0, PktSlice(w, base, offset, PacketSize - offset)),
                 !.samples[s].position = @ + (PacketSize - offset)]

\* lines 318-322: append the payload of a continuation packet to sample s
pes_append(w, s, base, offset) ==
  IF s = NULL THEN Crash(w, "NULL currentSample")
  ELSE LET grow == w.samples[s].position + PacketSize > w.samples[s].maxSize
           w1 == IF grow
                 THEN sample_resize(w, s, 2 * (w.samples[s].position + PacketSize))
                 ELSE w
       IN IF PacketSize - offset < 0 THEN Crash(w1, "memcpy with negative size")
          ELSE [w1 EXCEPT !.samples[s].data =
                             MemCopy(@, w.samples[s].position,
                                     PktSlice(w, base, offset, PacketSize - offset)),
                          !.samples[s].position = @ + (PacketSize - offset)]

\* faulty variant: the expected length is the declared PES_packet_length as it is
pes_handler_handle_payload_rawLength(w, ph, base, offset0, unitStart) ==
  IF unitStart
  THEN LET w1 == IF w.handlers[ph].currentSample # NULL THEN OutputPrevious(w, ph) ELSE w
           c == sample_create(w1)
           s == c.s
           w2 == [c.w EXCEPT !.handlers[ph].currentSample = s,
                             !.hist.made[w.handlers[ph].type] = Append(@, c.w.samples[s].unit)]
           w3 == IF Pkt(w, base, offset0) # 0 \/ Pkt(w, base, offset0 + 1) # 0
                    \/ Pkt(w, base, offset0 + 2) # 1
                 THEN Log(w2, "bad start code") ELSE w2
           declared == Pkt(w, base, offset0 + 4) * 256 + Pkt(w, base, offset0 + 5)
           flags == Pkt(w, base, offset0 + 7)
           headerDataLength == Pkt(w, base, offset0 + 8)
           fixedOffset == offset0 + 9
           pts == IF BitField(flags, 7, 1) = 1 THEN DecodePts(w, base, fixedOffset) ELSE 0
           timeUs == ((pts * 1000) \div 45) - 10 * 1000000
           offset == fixedOffset + headerDataLength
           length == declared
       IN IF PacketSize - offset < 0 THEN Crash(w3, "memcpy with negative size")
          ELSE [w3 EXCEPT !.handlers[ph].length = length,
                          !.samples[s].timeUs = timeUs,
                          !.samples[s].data =
                             MemCopy(@, 0, PktSlice(w, base, offset, PacketSize - offset)),
                          !.samples[s].position = PacketSize - offset]
  ELSE pes_append(w, w.handlers[ph].currentSample, base, offset0)

pes_handler_handle_payload(w, ph, base, offset0, unitStart) ==
  IF unitStart
  THEN LET w1 == IF w.handlers[ph].currentSample # NULL THEN OutputPrevious(w, ph) ELSE w
           c == sample_create(w1)
           s == c.s
           w2 == [c.w EXCEPT !.handlers[ph].currentSample = s,
                             !.hist.made[w.handlers[ph].type] = Append(@, c.w.samples[s].unit)]
           w3 == IF Pkt(w, base, offset0) # 0 \/ Pkt(w, base, offset0 + 1) # 0
                    \/ Pkt(w, base, offset0 + 2) # 1
                 THEN Log(w2, "bad start code") ELSE w2
           declared == Pkt(w, base, offset0 + 4) * 256 + Pkt(w, base, offset0 + 5)
           flags == Pkt(w, base, offset0 + 7)
           headerDataLength == Pkt(w, base, offset0 + 8)
           fixedOffset == offset0 + 9
           pts == IF BitField(flags, 7, 1) = 1 THEN DecodePts(w, base, fixedOffset) ELSE 0
           timeUs == ((pts * 1000) \div 45) - 10 * 1000000
           offset == fixedOffset + headerDataLength
           length == IF declared > 0 THEN declared - (headerDataLength + 3) ELSE declared
       IN IF PacketSize - offset < 0 THEN Crash(w3, "memcpy with negative size")
          ELSE [w3 EXCEPT !.handlers[ph].length = length,
                          !.samples[s].timeUs = timeUs,
                          !.samples[s].data =
                             MemCopy(@, 0, PktSlice(w, base, offset, PacketSize - offset)),
                          !.samples[s].position = PacketSize - offset]
  ELSE pes_append(w, w.handlers[ph].currentSample, base, offset0)

\* payloadHandler->handlePayload(payloadHandler, packet, payload_offset, unitStart)
handlePayload(w, ph, base, offset, unitStart) ==
  IF w.handlers[ph].kind = "PES"
  THEN pes_handler_handle_payload(w, ph, base, offset, unitStart)
  ELSE section_handler_handle_payload(w, ph, base, offset, unitStart)

(* ------------------------------------------------------------------ *)
(* Byte source (NonBlockingInputStream.read) and packet framer         *)
(* ------------------------------------------------------------------ *)
\* values read(buffer, offset, length) may return: -1 once every byte has
\* been handed out, otherwise 0 (nothing available now) or a chunk
SourceReturns(w, length) ==
  LET remaining == StreamLen(w.stream) - w.srcPos
  IN IF remaining = 0 THEN {-1}
     ELSE {Min(j * ChunkUnit, Min(length, remaining)) : j \in 0..MaxChunkUnits}

\* the source writes ret bytes at tsp->dataByteArray + offset
SourceRead(w, offset, ret) ==
  IF ret = -1 THEN [w EXCEPT !.srcEnded = TRUE]
  ELSE [w EXCEPT !.tsp.data = MemCopy(@, offset, StreamBytes(w.stream, w.srcPos, ret)),
                 !.srcPos = @ + ret,
                 !.hist.dataBase = IF offset = 0 THEN w.srcPos ELSE @]

\* faulty variant: every refill starts again at offset 0
RefillOffset_restart(w) == 0

\* lines 464-471: where the source is asked to write
RefillOffset(w) ==
  IF w.tsp.dataIncompletePosition # 0 THEN w.tsp.dataIncompletePosition ELSE 0
RefillLength(w) == BUFFER_SIZE - RefillOffset(w)

\* faulty variant: nothing is flushed at end of stream
FlushLoop_none(w, ph) == w

RECURSIVE FlushLoop(_, _)
\* the flush of every PES handler's current sample at end of stream
FlushLoop(w, ph) ==
  IF ph = NULL THEN w
  ELSE LET h == w.handlers[ph]
           w1 == IF h.isPES # 0 /\ h.currentSample # NULL
                 THEN [EnqueueSample(w, h.type, h.currentSample)
                         EXCEPT !.handlers[ph].currentSample = NULL]
                 ELSE w
       IN FlushLoop(w1, h.next)

\* faulty variant: at end of input the read cursor goes back to the start of
\* the working buffer
refill_data_rewindsAtEnd(w0, ret) ==
  LET offset0 == RefillOffset(w0)
      w == [SourceRead(w0, offset0, ret) EXCEPT
              !.hist.request = [offset |-> offset0, length |-> RefillLength(w0)]]
  IN IF ret = -1
     THEN LET w1 == [w EXCEPT !.tsp.inputStreamFinished = 1, !.tsp.dataPosition = 0]
              w2 == IF w1.tsp.dataSize % PacketSize # 0
                    THEN [Log(w1, "not a multiple of 188") EXCEPT
                            !.tsp.dataSize =
                               PacketSize * ((w1.tsp.dataSize + 187) \div PacketSize)]
                    ELSE w1
          IN FlushLoop(w2, w2.tsp.activePayloadHandlerHead)
     ELSE LET offset == offset0 + ret
          IN IF offset % PacketSize # 0
             THEN [w EXCEPT !.tsp.dataIncompletePosition = offset]
             ELSE [w EXCEPT !.tsp.dataSize = offset,
                            !.tsp.dataIncompletePosition = 0,
                            !.tsp.dataPosition = 0]

\* faulty variant: a read that ends inside a packet commits the whole packets
\* before it and restarts the cursor, while the cut packet stays incomplete
refill_data_commitsPartial(w0, ret) ==
  LET offset0 == RefillOffset(w0)
      w == [SourceRead(w0, offset0, ret) EXCEPT
              !.hist.request = [offset |-> offset0, length |-> RefillLength(w0)]]
  IN IF ret = -1
     THEN LET w1 == [w EXCEPT !.tsp.inputStreamFinished = 1]
              w2 == IF w1.tsp.dataSize % PacketSize # 0
                    THEN [Log(w1, "not a multiple of 188") EXCEPT
                            !.tsp.dataSize =
                               PacketSize * ((w1.tsp.dataSize + 187) \div PacketSize)]
                    ELSE w1
          IN FlushLoop(w2, w2.tsp.activePayloadHandlerHead)
     ELSE LET offset == offset0 + ret
          IN IF offset % PacketSize # 0
             THEN [w EXCEPT !.tsp.dataSize = offset - (offset % PacketSize),
                            !.tsp.dataIncompletePosition = offset,
                            !.tsp.dataPosition = 0]
             ELSE [w EXCEPT !.tsp.dataSize = offset,
                            !.tsp.dataIncompletePosition = 0,
                            !.tsp.dataPosition = 0]

\* faulty variant: a completed refill leaves the read cursor where it was
refill_data_keepsCursor(w0, ret) ==
  LET offset0 == RefillOffset(w0)
      w == [SourceRead(w0, offset0, ret) EXCEPT
              !.hist.request = [offset |-> offset0, length |-> RefillLength(w0)]]
  IN IF ret = -1
     THEN LET w1 == [w EXCEPT !.tsp.inputStreamFinished = 1]
              w2 == IF w1.tsp.dataSize % PacketSize # 0
                    THEN [Log(w1, "not a multiple of 188") EXCEPT
                            !.tsp.dataSize =
                               PacketSize * ((w1.tsp.dataSize + 187) \div PacketSize)]
                    ELSE w1
          IN FlushLoop(w2, w2.tsp.activePayloadHandlerHead)
     ELSE LET offset == offset0 + ret
          IN IF offset % PacketSize # 0
             THEN [w EXCEPT !.tsp.dataIncompletePosition = offset]
             ELSE [w EXCEPT !.tsp.dataSize = offset,
                            !.tsp.dataIncompletePosition = 0]

\* _refill_data, ret being what the source returned
refill_data(w0, ret) ==
  LET offset0 == RefillOffset(w0)
      w == [SourceRead(w0, offset0, ret) EXCEPT
              !.hist.request = [offset |-> offset0, length |-> RefillLength(w0)]]
  IN IF ret = -1
     THEN LET w1 == [w EXCEPT !.tsp.inputStreamFinished = 1]
              w2 == IF w1.tsp.dataSize % PacketSize # 0
                    THEN [Log(w1, "not a multiple of 188") EXCEPT
                            !.tsp.dataSize =
                               PacketSize * ((w1.tsp.dataSize + 187) \div PacketSize)]
                    ELSE w1
          IN FlushLoop(w2, w2.tsp.activePayloadHandlerHead)
     ELSE LET offset == offset0 + ret
          IN IF offset % PacketSize # 0
             THEN [w EXCEPT !.tsp.dataIncompletePosition = offset]
             ELSE [w EXCEPT !.tsp.dataSize = offset,
                            !.tsp.dataIncompletePosition = 0,
                            !.tsp.dataPosition = 0]

\* faulty variant: the head of the list takes every packet
FindHandler_headOnly(w, ph, pid) == ph

RECURSIVE FindHandler(_, _, _)
\* the first handler of pid on the list from ph on
FindHandler(w, ph, pid) ==
  IF ph = NULL THEN NULL
  ELSE IF w.handlers[ph].pid = pid THEN ph
  ELSE FindHandler(w, w.handlers[ph].next, pid)

NeedRefill(w) ==
  w.tsp.dataPosition = w.tsp.dataSize \/ w.tsp.dataIncompletePosition # 0

\* faulty variant: the expected counter is stored instead of the packet's
CheckContinuity_storeExpected(w, payloadHandler, cc_counter) ==
  LET expected_cc_counter == (w.handlers[payloadHandler].cc_counter + 1) % 16
      w1 == IF expected_cc_counter # cc_counter THEN Log(w, "cc_error") ELSE w
  IN [w1 EXCEPT !.handlers[payloadHandler].cc_counter = expected_cc_counter]

\* lines 553-557: compare the packet's continuity counter with the expected
\* one, log a mismatch, store the packet's counter
CheckContinuity(w, payloadHandler, cc_counter) ==
  LET expected_cc_counter == (w.handlers[payloadHandler].cc_counter + 1) % 16
      w1 == IF expected_cc_counter # cc_counter THEN Log(w, "cc_error") ELSE w
  IN [w1 EXCEPT !.handlers[payloadHandler].cc_counter = cc_counter]

\* lines 533-569: take the packet at the read cursor and dispatch it
DispatchPacket(w0) ==
  LET base == w0.tsp.dataPosition
      from == w0.hist.dataBase + base
      w == [w0 EXCEPT !.tsp.dataPosition = @ + PacketSize,
                      !.hist.parsed = Append(@, from)]
      unitStart == BitField(Pkt(w, base, 1), 6, 1) # 0
      pid == AndMask(Pkt(w, base, 1), 0, 5) * 256 + Pkt(w, base, 2)
      cc_counter == AndMask(Pkt(w, base, 3), 0, 4)
      payloadHandler == FindHandler(w, w.tsp.activePayloadHandlerHead, pid)
  IN IF payloadHandler = NULL THEN w
     ELSE LET w2 == CheckContinuity(w, payloadHandler, cc_counter)
              adaptation_field_exists == BitField(Pkt(w, base, 3), 5, 1) # 0
              payload_offset == IF adaptation_field_exists
                                THEN 4 + Pkt(w, base, 4) + 1 ELSE 4
          IN handlePayload(w2, payloadHandler, base, payload_offset, unitStart)

\* tsparser_parse_one_packet: [w |-> world after, res |-> PARSE_ONE_PACKET_*];
\* ret is what the source returns if it is asked
tsparser_parse_one_packet(w, ret) ==
  IF NeedRefill(w)
  THEN LET w1 == refill_data(w, ret)
       IN IF w1.tsp.inputStreamFinished # 0
          THEN [w |-> w1, res |-> PARSE_ONE_PACKET_FINISHED]
          ELSE IF NeedRefill(w1)
          THEN [w |-> w1, res |-> PARSE_ONE_PACKET_WAIT]
          ELSE [w |-> DispatchPacket(w1), res |-> PARSE_ONE_PACKET_AGAIN]
  ELSE [w |-> DispatchPacket(w), res |-> PARSE_ONE_PACKET_AGAIN]

\* the source's possible answers to the request this call would make
ParseInputs(w) ==
  IF NeedRefill(w) THEN SourceReturns(w, RefillLength(w)) ELSE {0}

(* ------------------------------------------------------------------ *)
(* JNI entry points                                                    *)
(* ------------------------------------------------------------------ *)
\* capacities of the caller's SampleHolder buffer: -1 is a holder without
\* ByteBuffer, 4 a buffer smaller than any sample, the last one large enough
HolderCaps == {-1, 4, SampleInitialSize}

EmptyHolder(cap) ==
  [cap |-> cap, data |-> << >>, timeUs |-> 0, flags |-> 0, position |-> 0, unit |-> 0]

\* _fill_holder: [w |-> world after (log), holder |-> the holder after]
fill_holder(w, cap, s, type) ==
  LET sample == w.samples[s]
  IN IF cap = -1 THEN [w |-> w, holder |-> EmptyHolder(cap)]
     ELSE LET n == IF cap < sample.position THEN cap ELSE sample.position
          IN [w |-> IF cap < sample.position
                    THEN Log(w, "ByteBuffer capacity is too small") ELSE w,
              holder |-> [cap |-> cap,
                          data |-> [j \in 1..n |-> ByteAt(sample.data, j - 1)],
                          timeUs |-> sample.timeUs,
                          flags |-> SAMPLE_FLAG_SYNC,
                          position |-> sample.position,
                          unit |-> sample.unit]]

\* faulty variant: end of stream is never reported
ReadStatus_neverEos(w) == RESULT_NEED_MORE_DATA

\* faulty variant: the test of inputStreamFinished is inverted
ReadStatus_inverted(w) ==
  IF w.tsp.inputStreamFinished # 0 THEN RESULT_NEED_MORE_DATA ELSE RESULT_END_OF_STREAM

\* lines 672-676 of nativeRead: the status returned when the queue is empty
ReadStatus(w) ==
  IF w.tsp.inputStreamFinished # 0 THEN RESULT_END_OF_STREAM ELSE RESULT_NEED_MORE_DATA

\* faulty variant: the whole queue is dropped with its head
nativeRead_tail_dropsQueue(w, type, cap) ==
  IF w.tsp.sampleHead[type] # NULL
  THEN LET s == w.tsp.sampleHead[type]
           f == fill_holder(w, cap, s, type)
           w1 == [f.w EXCEPT !.tsp.sampleHead[type] = NULL,
                             !.tsp.sampleLastNext[type] = HeadSlot(type)]
           w3 == sample_destroy(w1, s)
       IN [w |-> [w3 EXCEPT !.hist.deq[type] = Append(@, w.samples[s].unit)],
           holder |-> f.holder, ret |-> RESULT_READ_SAMPLE_FULL]
  ELSE [w |-> w, holder |-> EmptyHolder(cap), ret |-> ReadStatus(w)]

\* faulty variant: the tail pointer is left on the link of the sample handed out
nativeRead_tail_keepsTail(w, type, cap) ==
  IF w.tsp.sampleHead[type] # NULL
  THEN LET s == w.tsp.sampleHead[type]
           f == fill_holder(w, cap, s, type)
           w1 == [f.w EXCEPT !.tsp.sampleHead[type] = w.samples[s].next]
           w3 == sample_destroy(w1, s)
       IN [w |-> [w3 EXCEPT !.hist.deq[type] = Append(@, w.samples[s].unit)],
           holder |-> f.holder, ret |-> RESULT_READ_SAMPLE_FULL]
  ELSE [w |-> w, holder |-> EmptyHolder(cap), ret |-> ReadStatus(w)]

\* lines 660-677 of nativeRead: [w, holder, ret]
nativeRead_tail(w, type, cap) ==
  IF w.tsp.sampleHead[type] # NULL
  THEN LET s == w.tsp.sampleHead[type]
           f == fill_holder(w, cap, s, type)
           w1 == [f.w EXCEPT !.tsp.sampleHead[type] = w.samples[s].next]
           w2 == IF w.samples[s].next = NULL
                 THEN [w1 EXCEPT !.tsp.sampleLastNext[type] = HeadSlot(type)]
                 ELSE w1
           w3 == sample_destroy(w2, s)
       IN [w |-> [w3 EXCEPT !.hist.deq[type] = Append(@, w.samples[s].unit)],
           holder |-> f.holder, ret |-> RESULT_READ_SAMPLE_FULL]
  ELSE [w |-> w, holder |-> EmptyHolder(cap), ret |-> ReadStatus(w)]

\* faulty variant: only the first queue is inspected
nativeIsReadFinished_firstQueueOnly(w) ==
  IF w.tsp.inputStreamFinished = 0 THEN 0
  ELSE IF w.tsp.sampleHead[0] # NULL THEN 0
  ELSE 1

\* nativeIsReadFinished: JNI_TRUE = 1, JNI_FALSE = 0
nativeIsReadFinished(w) ==
  IF w.tsp.inputStreamFinished = 0 THEN 0
  ELSE IF \E i \in 0..(TYPE_COUNT - 1) : w.tsp.sampleHead[i] # NULL THEN 0
  ELSE 1

Idle == [op |-> "idle", type |-> 0]

\* a completed call: entry point, stream type (nativeRead), return value, holder
Returned(op, type, ret, h) == [op |-> op, type |-> type, ret |-> ret, holder |-> h]

\* no call has returned since the last one was entered
NoResult == Returned("none", 0, 0, EmptyHolder(-1))

(* ------------------------------------------------------------------ *)
(* Initial state: nativeInit / tsparser_create                         *)
(* ------------------------------------------------------------------ *)
tsparser_create ==
  [data |-> << >>, dataSize |-> 0, dataPosition |-> 0, dataIncompletePosition |-> 0,
   sampleHead |-> [t \in Types |-> NULL],
   sampleLastNext |-> [t \in Types |-> HeadSlot(t)],
   activePayloadHandlerHead |-> NULL,
   audioConfigFound |-> 0, sampleRateIndex |-> 0, channelConfigIndex |-> 0,
   pmt_pid |-> 0, inputStreamFinished |-> 0]


InitWorld(st) ==
  pat_handler_create(
    [tsp |-> tsparser_create, handlers |-> << >>, samples |-> << >>,
     recycledSamples |-> NULL, total_size |-> 0,
     stream |-> st, srcPos |-> 0, srcEnded |-> FALSE,
     diag |-> {},
     hist |-> [units |-> 0, made |-> [t \in Types |-> << >>],
               enq |-> [t \in Types |-> << >>],
               deq |-> [t \in Types |-> << >>], parsed |-> << >>, dataBase |-> 0,
               sections |-> << >>, request |-> [offset |-> 0, length |-> 0]],
     crashed |-> FALSE], 0)

\* a sample left on the free list by an earlier session of the process
\* (recycledSamples is static): it was resized once and holds old bytes
StaleSample ==
  [data |-> << 9, 8, 7, 6, 5, 4, 3, 2, 1, 9, 8, 7, 6, 5, 4, 3 >>,
   position |-> SampleInitialSize - 3, maxSize |-> 2 * (SampleInitialSize + 1),
   timeUs |-> 1000, next |-> NULL, unit |-> 0]

\* the free list at nativeInit: empty, or holding one sample
Pools == { << >>, << StaleSample >> }

RECURSIVE AllocatedSize(_)
\* what the allocations and resizes of the samples ss have added to total_size
AllocatedSize(ss) ==
  IF ss = << >> THEN 0 ELSE Head(ss).maxSize + AllocatedSize(Tail(ss))

InitWorldPool(st, pool) ==
  [InitWorld(st) EXCEPT !.samples = pool,
                        !.recycledSamples = IF pool = << >> THEN NULL ELSE 1,
                        !.total_size = AllocatedSize(pool)]

Commit(w) ==
  /\ tsp' = w.tsp
  /\ handlers' = w.handlers
  /\ samples' = w.samples
  /\ recycledSamples' = w.recycledSamples
  /\ total_size' = w.total_size
  /\ UNCHANGED << sampleMutex, threads >>
  /\ stream' = w.stream
  /\ srcPos' = w.srcPos
  /\ srcEnded' = w.srcEnded
  /\ diag' = w.diag
  /\ hist' = w.hist
  /\ crashed' = w.crashed

InitWith(st) ==
  LET w == InitWorld(st)
  IN /\ tsp = w.tsp
     /\ handlers = w.handlers
     /\ samples = w.samples
     /\ recycledSamples = w.recycledSamples
     /\ total_size = w.total_size
     /\ sampleMutex = NULL
     /\ threads = << >>
     /\ stream = w.stream
     /\ srcPos = w.srcPos
     /\ srcEnded = w.srcEnded
     /\ diag = w.diag
     /\ hist = w.hist
     /\ crashed = w.crashed
     /\ pc = Idle
     /\ result = NoResult

InitWorldState(w) ==
  /\ tsp = w.tsp
  /\ handlers = w.handlers
  /\ samples = w.samples
  /\ recycledSamples = w.recycledSamples
  /\ total_size = w.total_size
  /\ sampleMutex = NULL
  /\ threads = << >>
  /\ stream = w.stream
  /\ srcPos = w.srcPos
  /\ srcEnded = w.srcEnded
  /\ diag = w.diag
  /\ hist = w.hist
  /\ crashed = w.crashed
  /\ pc = Idle
  /\ result = NoResult

Init == \E st \in Streams : InitWith(st)

\* sessions on the streams with other tables, and sessions that find a
\* sample on the free list
ScenarioInit ==
  \/ \E st \in TableStreams \cup UnitStreams : InitWorldState(InitWorldPool(st, << >>))
  \/ \E st \in PoolStreams, pool \in Pools : InitWorldState(InitWorldPool(st, pool))

(* ------------------------------------------------------------------ *)
(* Actions                                                             *)
(* ------------------------------------------------------------------ *)
\* the caller enters nativeRead(type, holder)
NativeRead_Enter(type) ==
  /\ pc.op = "idle" /\ ~crashed
  /\ pc' = [op |-> "read", type |-> type]
  /\ result' = NoResult
  /\ UNCHANGED << tsp, handlers, samples, recycledSamples, total_size, sampleMutex,
                  threads, stream, srcPos, srcEnded,
                  diag, hist, crashed >>

\* faulty variant: the loop goes on when the source has nothing to give now
NativeRead_Iterate_spinsOnWait ==
  /\ pc.op = "read" /\ ~crashed
  /\ tsp.sampleHead[pc.type] = NULL
  /\ \E ret \in ParseInputs(World) :
       LET r == tsparser_parse_one_packet(World, ret)
       IN /\ Commit(r.w)
          /\ pc' = IF r.res = PARSE_ONE_PACKET_FINISHED THEN [pc EXCEPT !.op = "readTail"] ELSE pc
  /\ UNCHANGED result

\* one iteration of the loop of lines 654-658
NativeRead_Iterate ==
  /\ pc.op = "read" /\ ~crashed
  /\ tsp.sampleHead[pc.type] = NULL
  /\ \E ret \in ParseInputs(World) :
       LET r == tsparser_parse_one_packet(World, ret)
       IN /\ Commit(r.w)
          /\ pc' = IF r.res # PARSE_ONE_PACKET_AGAIN THEN [pc EXCEPT !.op = "readTail"] ELSE pc
  /\ UNCHANGED result

\* lines 660-677: hand out the head sample or report the stream state; cap is
\* the capacity of the holder the caller passed (first read in _fill_holder)
NativeRead_Finish(cap) ==
  /\ ~crashed
  /\ \/ pc.op = "readTail"
     \/ pc.op = "read" /\ tsp.sampleHead[pc.type] # NULL
  /\ LET r == nativeRead_tail(World, pc.type, cap)
     IN /\ Commit(r.w)
        /\ result' = Returned("read", pc.type, r.ret, r.holder)
  /\ pc' = Idle

NativeIsReadFinished ==
  /\ pc.op = "idle" /\ ~crashed
  /\ result' = Returned("isReadFinished", 0, nativeIsReadFinished(World), EmptyHolder(-1))
  /\ UNCHANGED << tsp, handlers, samples, recycledSamples, total_size, sampleMutex,
                  threads, stream, srcPos, srcEnded,
                  pc, diag, hist, crashed >>

\* the caller enters nativeGetSampleRateIndex ("sri") or nativeGetChannelConfigIndex ("cci")
NativeGetIndex_Enter(op) ==
  /\ pc.op = "idle" /\ ~crashed
  /\ pc' = [op |-> op, type |-> 0]
  /\ result' = NoResult
  /\ UNCHANGED << tsp, handlers, samples, recycledSamples, total_size, sampleMutex,
                  threads, stream, srcPos, srcEnded,
                  diag, hist, crashed >>

\* faulty variant: the loop is also left when the source has nothing to give now
NativeGetIndex_Iterate_breaksOnWait ==
  /\ pc.op \in {"sri", "cci"} /\ ~crashed
  /\ tsp.audioConfigFound = 0 /\ pc.type = 0
  /\ \E ret \in ParseInputs(World) :
       LET r == tsparser_parse_one_packet(World, ret)
       IN /\ Commit(r.w)
          /\ pc' = IF r.res # PARSE_ONE_PACKET_AGAIN THEN [pc EXCEPT !.type = 1] ELSE pc
  /\ UNCHANGED result

\* one iteration of while (!tsp->audioConfigFound) { if (parse == FINISHED) break; };
\* pc.type = 1 once the break has been taken
NativeGetIndex_Iterate ==
  /\ pc.op \in {"sri", "cci"} /\ ~crashed
  /\ tsp.audioConfigFound = 0 /\ pc.type = 0
  /\ \E ret \in ParseInputs(World) :
       LET r == tsparser_parse_one_packet(World, ret)
       IN /\ Commit(r.w)
          /\ pc' = IF r.res = PARSE_ONE_PACKET_FINISHED THEN [pc EXCEPT !.type = 1] ELSE pc
  /\ UNCHANGED result

NativeGetIndex_Finish ==
  /\ pc.op \in {"sri", "cci"} /\ ~crashed
  /\ tsp.audioConfigFound # 0 \/ pc.type = 1
  /\ result' = Returned(pc.op, 0,
                        IF pc.op = "sri" THEN tsp.sampleRateIndex
                        ELSE tsp.channelConfigIndex,
                        EmptyHolder(-1))
  /\ pc' = Idle
  /\ UNCHANGED << tsp, handlers, samples, recycledSamples, total_size, sampleMutex,
                  threads, stream, srcPos, srcEnded,
                  diag, hist, crashed >>

Next ==
  \/ \E type \in Types : NativeRead_Enter(type)
  \/ NativeRead_Iterate
  \/ \E cap \in HolderCaps : NativeRead_Finish(cap)
  \/ NativeIsReadFinished
  \/ \E op \in {"sri", "cci"} : NativeGetIndex_Enter(op)
  \/ NativeGetIndex_Iterate
  \/ NativeGetIndex_Finish

Spec == Init /\ [][Next]_vars

ScenarioSpec == ScenarioInit /\ [][Next]_vars

(* ------------------------------------------------------------------ *)
(* Notions the properties are stated with                              *)
(* ------------------------------------------------------------------ *)
RECURSIVE ChainUnits(_, _, _)
\* the units on the list that starts at sample s, following next (at most n links)
ChainUnits(ss, s, n) ==
  IF s = NULL \/ n = 0 THEN << >>
  ELSE << ss[s].unit >> \o ChainUnits(ss, ss[s].next, n - 1)

\* the queue of a type as the code sees it: the list from tsp->sampleHead[type]
QueueUnits(t) == ChainUnits(samples, tsp.sampleHead[t], Len(samples) + 1)

\* the units enqueued and not yet returned, in the order they were enqueued
Pending(h, t) == SubSeq(h.enq[t], Len(h.deq[t]) + 1, Len(h.enq[t]))

IsPrefix(a, b) == Len(a) <= Len(b) /\ a = SubSeq(b, 1, Len(a))

Other(t) == IF t = TYPE_VIDEO THEN TYPE_AUDIO ELSE TYPE_VIDEO

ReadReturned(t, ret) == result.op = "read" /\ result.type = t /\ result.ret = ret

\* number of whole packets of the stream
WholePackets == Len(stream.pkts)

(* ------------------------------------------------------------------ *)
(* Properties                                                          *)
(* ------------------------------------------------------------------ *)

\* C5: in every state, nativeIsReadFinished answers true exactly when the
\* source has reported end of stream and every unit enqueued on either queue
\* has been returned; a completed call returned that answer.
C5_IsReadFinishedIff ==
  /\ (nativeIsReadFinished(World) = 1)
       <=> (srcEnded /\ \A t \in Types : Len(hist.enq[t]) = Len(hist.deq[t]))
  /\ result.op = "isReadFinished" => result.ret = nativeIsReadFinished(World)

\* C5 witness: the call answered true after units had been enqueued and returned
C5_Witness ==
  /\ result.op = "isReadFinished" /\ result.ret = 1
  /\ Len(hist.deq[TYPE_VIDEO]) > 0 /\ Len(hist.deq[TYPE_AUDIO]) > 0

\* C6: a returning nativeRead(type) returns one of the three codes: FULL
\* exactly when a unit of the type is pending after the packet loop, and then
\* exactly the oldest pending unit leaves that queue and nothing else moves;
\* END_OF_STREAM exactly when none is pending and the source reported end;
\* NEED_MORE_DATA exactly when none is pending and the source did not.
C6_ReadResult ==
  [][ (pc.op \in {"read", "readTail"} /\ pc'.op = "idle") =>
        LET t == pc.type
            q == Pending(hist, t)
        IN /\ result'.op = "read" /\ result'.type = t
           /\ result'.ret \in {RESULT_NEED_MORE_DATA, RESULT_END_OF_STREAM,
                               RESULT_READ_SAMPLE_FULL}
           /\ (result'.ret = RESULT_READ_SAMPLE_FULL) <=> (q # << >>)
           /\ (result'.ret = RESULT_END_OF_STREAM) <=> (q = << >> /\ srcEnded)
           /\ (result'.ret = RESULT_NEED_MORE_DATA) <=> (q = << >> /\ ~srcEnded)
           /\ hist'.enq = hist.enq
           /\ hist'.deq[Other(t)] = hist.deq[Other(t)]
           /\ IF q # << >>
              THEN /\ hist'.deq[t] = Append(hist.deq[t], Head(q))
                   /\ ChainUnits(samples', tsp'.sampleHead[t], Len(samples') + 1)
                        = Tail(QueueUnits(t))
              ELSE hist'.deq[t] = hist.deq[t]
    ]_vars

\* C6 witness: a read returned END_OF_STREAM after an earlier read of the
\* type had returned a unit
C6_Witness ==
  /\ result.op = "read" /\ result.ret = RESULT_END_OF_STREAM
  /\ Len(hist.deq[result.type]) > 0

\* C8: per type, the units returned so far are the first units enqueued, in
\* the order of their enqueueing, and the linked queue holds the rest in
\* that order.
C8_Fifo ==
  \A t \in Types :
    /\ IsPrefix(hist.deq[t], hist.enq[t])
    /\ QueueUnits(t) = Pending(hist, t)

\* C8 witness: two units of one type were queued together and both returned
C8_Witness ==
  \E t \in Types :
    /\ Len(hist.deq[t]) = 2
    /\ result.op = "read" /\ result.ret = RESULT_READ_SAMPLE_FULL

\* C4: once the source has reported end no PES handler holds a unit in
\* progress, and a read of a type that returned END_OF_STREAM has been
\* preceded by the return of every unit created for that type.
C4_FlushBeforeEos ==
  /\ srcEnded =>
       \A h \in 1..Len(handlers) :
         (handlers[h].live /\ handlers[h].isPES # 0) => handlers[h].currentSample = NULL
  /\ \A t \in Types :
       ReadReturned(t, RESULT_END_OF_STREAM) =>
         /\ hist.deq[t] = hist.made[t]
         /\ QueueUnits(t) = << >>

\* C4 witness: END_OF_STREAM was returned for a type whose last unit could
\* only have been completed by the flush
C4_Witness ==
  \E t \in Types :
    /\ ReadReturned(t, RESULT_END_OF_STREAM)
    /\ hist.made[t] # << >>

\* C2 (as claimed): for a stream of 188*k + r bytes, 0 < r < 188, once the
\* session reports END_OF_STREAM all k whole packets have been dispatched.
C2_AllWholePacketsParsed ==
  (stream.trail > 0 /\ result.op = "read" /\ result.ret = RESULT_END_OF_STREAM)
    => Len(hist.parsed) = WholePackets

\* C3 (as claimed): when the source reports end while the accumulated bytes
\* are not a multiple of 188, the malformed-length diagnostic is raised.
C3_RemainderDiagnosed ==
  (srcEnded /\ srcPos % PacketSize # 0) => "not a multiple of 188" \in diag

\* ---- what the stream says the access units are ----

\* descriptor of the stream packet that starts at stream offset `from'
DescAt(from) == stream.pkts[(from \div PacketSize) + 1]

\* the elementary-stream payload a packet carries: its body after the PES header
DescPayload(d) == SubSeq(d.body, d.hl + 1, Len(d.body))

\* PID of the first PMT entry with the stream type of t
TypeStreamType(t) == IF t = TYPE_AUDIO THEN STREAM_TYPE_AAC_ADTS ELSE STREAM_TYPE_H264
FirstEntry(t) ==
  LET is == {i \in 1..Len(stream.pmt) : stream.pmt[i].st = TypeStreamType(t)}
  IN stream.pmt[CHOOSE i \in is : \A j \in is : i <= j]

RECURSIVE UnitsOf(_, _, _)
\* the access units carried on PID pid by the packets at the stream offsets
\* froms[i..]: each unit-start opens a unit, each continuation extends the
\* last one; acc is the sequence of units so far
UnitsOf(froms, pid, acc) ==
  IF froms = << >> THEN acc
  ELSE LET d == DescAt(Head(froms))
           acc1 == IF d.pid # pid \/ d.k \in {"PAT", "PMT"} THEN acc
                   ELSE IF d.us = 1 THEN Append(acc, DescPayload(d))
                   ELSE IF acc = << >> THEN acc
                   ELSE [acc EXCEPT ![Len(acc)] = @ \o DescPayload(d)]
       IN UnitsOf(Tail(froms), pid, acc1)

\* the units of type t carried by the packets dispatched so far
ExpectedUnits(t) == UnitsOf(hist.parsed, FirstEntry(t).pid, << >>)

RECURSIVE ChainSamples(_, _, _)
ChainSamples(ss, s, n) ==
  IF s = NULL \/ n = 0 THEN << >>
  ELSE << s >> \o ChainSamples(ss, ss[s].next, n - 1)

QueueSamples(t) == ChainSamples(samples, tsp.sampleHead[t], Len(samples) + 1)

\* the accumulated bytes of a sample: data[0 .. position)
SampleBytes(ss, s) == [j \in 1..ss[s].position |-> ByteAt(ss[s].data, j - 1)]

\* C7: every queued access unit holds, and every read with a large enough
\* holder delivers, exactly the payload of its unit-start packet after the
\* PES header followed by the payloads of the continuation packets dispatched
\* after it on its PID, in arrival order.
C7_Reassembly ==
  \A t \in Types :
    LET us == ExpectedUnits(t)
        q == QueueSamples(t)
        nd == Len(hist.deq[t])
    IN /\ \A i \in 1..Len(hist.parsed) : hist.parsed[i] % PacketSize = 0
       /\ Len(us) >= nd + Len(q)
       /\ \A j \in 1..Len(q) : SampleBytes(samples, q[j]) = us[nd + j]
       /\ (ReadReturned(t, RESULT_READ_SAMPLE_FULL)
           /\ result.holder.cap >= result.holder.position)
            => (result.holder.data = us[nd] /\ result.holder.position = Len(us[nd]))

\* C7 witness: a read delivered a unit made of a unit-start packet and a
\* continuation packet without adaptation field
C7_Witness ==
  /\ ReadReturned(TYPE_VIDEO, RESULT_READ_SAMPLE_FULL)
  /\ result.holder.cap >= result.holder.position
  /\ Len(result.holder.data) = 6 + (PacketSize - 4)

\* ---- continuity counter ----

WorldNext ==
  [tsp |-> tsp', handlers |-> handlers', samples |-> samples',
   recycledSamples |-> recycledSamples', total_size |-> total_size',
   stream |-> stream', srcPos |-> srcPos',
   srcEnded |-> srcEnded', diag |-> diag', hist |-> hist', crashed |-> crashed']

\* the world at line 533 of the tsparser_parse_one_packet call a step makes
PreDispatch ==
  IF NeedRefill(World) THEN refill_data(World, srcPos' - srcPos) ELSE World

NoDiag(w) == [w EXCEPT !.diag = {}]

\* C9: a step that dispatches a packet whose continuity counter is not the
\* handler's counter plus 1 mod 16 ends in the state it would have ended in
\* had the handler's counter been the expected one, apart from the log; the
\* handler's counter becomes the packet's; and a continuation packet's payload
\* is appended unmodified to the handler's current sample.
C9_ContinuityGap ==
  [][ Len(hist'.parsed) = Len(hist.parsed) + 1 =>
        LET d == DescAt(hist'.parsed[Len(hist'.parsed)])
            ph == FindHandler(World, tsp.activePayloadHandlerHead, d.pid)
            gap == ph # NULL /\ d.cc # (handlers[ph].cc_counter + 1) % 16
            s == handlers[ph].currentSample
        IN gap =>
             /\ NoDiag(WorldNext)
                  = NoDiag(DispatchPacket(
                             [PreDispatch EXCEPT
                                !.handlers[ph].cc_counter = (d.cc + 15) % 16]))
             /\ "cc_error" \in diag'
             /\ handlers'[ph].cc_counter = d.cc
             /\ (handlers[ph].kind = "PES" /\ d.us = 0 /\ s # NULL) =>
                  SampleBytes(samples', s) = SampleBytes(samples, s) \o DescPayload(d)
    ]_vars

\* C9 witness: a packet with a counter gap was dispatched and its payload is
\* in a sample after the payload of the unit-start packet
C9_Witness ==
  /\ "cc_error" \in diag /\ ~crashed
  /\ \E s \in 1..Len(samples) : samples[s].position = 6 + (PacketSize - 4)

\* ---- program tables ----

HandlersOfKind(k) == {h \in 1..Len(handlers) : handlers[h].kind = k}
PesHandlers(t) == {h \in HandlersOfKind("PES") : handlers[h].type = t}

RECURSIVE ListFrom(_, _)
\* the handlers on the active list from ph on
ListFrom(ph, n) ==
  IF ph = NULL \/ n = 0 THEN << >>
  ELSE << ph >> \o ListFrom(handlers[ph].next, n - 1)
Registry == ListFrom(tsp.activePayloadHandlerHead, Len(handlers) + 1)
Registered(h) == \E i \in 1..Len(Registry) : Registry[i] = h

PatDone == \A h \in HandlersOfKind("PAT") : ~handlers[h].live
PmtDone == HandlersOfKind("PMT") # {} /\ \A h \in HandlersOfKind("PMT") : ~handlers[h].live

\* C10: after the PAT section with one program entry has been handled there
\* is exactly one PMT handler, at the declared PID (none before); after the
\* PMT section has been handled there is exactly one audio and one video PES
\* handler, registered at the PIDs of the first AAC-ADTS and the first H.264
\* entry (none before), and no handler for a further entry.
C10_TableHandlers ==
  Len(stream.pat) = 1 =>
    /\ ~PatDone => HandlersOfKind("PMT") = {}
    /\ PatDone =>
         /\ Cardinality(HandlersOfKind("PMT")) = 1
         /\ \A h \in HandlersOfKind("PMT") :
              /\ handlers[h].pid = stream.pat[1]
              /\ handlers[h].live => Registered(h)
    /\ ~PmtDone => HandlersOfKind("PES") = {}
    /\ PmtDone =>
         /\ \A t \in Types :
              /\ Cardinality(PesHandlers(t)) = 1
              /\ \A h \in PesHandlers(t) :
                   /\ handlers[h].pid = FirstEntry(t).pid
                   /\ handlers[h].live /\ Registered(h)
         /\ Len(Registry) = 2

\* C10 witness: the PMT with a second AAC-ADTS entry has been handled
C10_Witness ==
  /\ PmtDone /\ Len(stream.pmt) = 3
  /\ \E i \in 1..Len(stream.pmt) : stream.pmt[i].pid = Pid.audio2

-----------------------------------------------------------------------------
\* Reading a clean stream to its end.  The caller keeps calling
\* nativeRead for both types and the source eventually delivers.

\* a continuation packet of the video stream comes only after a start packet
CleanTail(ks) ==
  \A i \in 1..Len(ks) :
     ks[i] \in {"VC", "VG"} => \E j \in 1..(i - 1) : ks[j] = "VS"

\* streams whose length is a multiple of 188 and that carry PAT, PMT, clean PES
CleanStreams ==
  { MkStream(BasicTables, ks, 0) : ks \in {k \in Tails : CleanTail(k)} }
  \cup { MkStream(t, << "AS", "VS" >>, 0) : t \in OtherTables }

LiveInit == \E st \in CleanStreams : InitWith(st)

LiveNext ==
  \/ \E type \in Types : NativeRead_Enter(type)
  \/ NativeRead_Iterate
  \/ \E cap \in HolderCaps : NativeRead_Finish(cap)
  \/ NativeIsReadFinished

\* an iteration in which the source hands over bytes or reports its end, or
\* that parses a packet already in the working buffer
DeliveringIterate ==
  /\ NativeRead_Iterate
  /\ \/ ~NeedRefill(World)
     \/ srcPos' # srcPos
     \/ srcEnded' # srcEnded

\* the enabling condition of <<NativeRead_Iterate>>_vars as a state predicate:
\* an iteration always changes pc, hist.parsed or srcPos
IterateEnabled == pc.op = "read" /\ ~crashed /\ tsp.sampleHead[pc.type] = NULL

\* the enabling condition of <<DeliveringIterate>>_vars
DeliveringEnabled == IterateEnabled /\ (~NeedRefill(World) \/ ~srcEnded)

\* The native loop and the call tail run to completion (weak fairness), the
\* caller calls read for each type again and again, and the source does not
\* return 0 forever (strong fairness).  WF_vars(NativeRead_Iterate) and
\* SF_vars(DeliveringIterate) are written out with the enabling conditions
\* above.
LiveFairness ==
  /\ ([]<>~IterateEnabled \/ []<><<NativeRead_Iterate>>_vars)
  /\ (<>[]~DeliveringEnabled \/ []<><<DeliveringIterate>>_vars)
  /\ WF_vars(\E cap \in HolderCaps : NativeRead_Finish(cap))
  /\ \A type \in Types : SF_vars(NativeRead_Enter(type))

LiveSpec == LiveInit /\ [][LiveNext]_vars /\ LiveFairness

\* C1: on a clean stream of whole packets, whatever the chunking of the
\* source, repeated reads of both types eventually return END_OF_STREAM for
\* video and for audio; when a read of a type returns END_OF_STREAM every
\* access unit enqueued for that type has been returned by a read of that
\* type; and nativeIsReadFinished never answers true while an enqueued unit
\* of either type is still to be returned.
C1_ReadsReachEndOfStream ==
  /\ <>ReadReturned(TYPE_VIDEO, RESULT_END_OF_STREAM)
  /\ <>ReadReturned(TYPE_AUDIO, RESULT_END_OF_STREAM)
  /\ [](\A t \in Types :
          ReadReturned(t, RESULT_END_OF_STREAM) => hist.deq[t] = hist.enq[t])
  /\ []((result.op = "isReadFinished" /\ result.ret = 1) =>
          \A t \in Types : Pending(hist, t) = << >>)

C1_Witness ==
  /\ ReadReturned(TYPE_AUDIO, RESULT_END_OF_STREAM)
  /\ stream.trail = 0 /\ ~crashed
  /\ srcPos = StreamLen(stream)
  /\ \A t \in Types : Len(hist.enq[t]) > 0 /\ hist.deq[t] = hist.enq[t]

-----------------------------------------------------------------------------
\* Program tables other than one program with one audio and one video stream

\* C11: once the PAT section of a PAT that lists several programs has been
\* handled there is exactly one PMT handler, at the PID of the first entry,
\* and tsp->pmt_pid is the PID of the first entry.
C11_FirstProgramOnly ==
  (Len(stream.pat) > 1 /\ PatDone) =>
    /\ Cardinality(HandlersOfKind("PMT")) = 1
    /\ \A h \in HandlersOfKind("PMT") : handlers[h].pid = stream.pat[1]
    /\ tsp.pmt_pid = stream.pat[1]

\* C12: no two handlers on the active list have the same PID.
C12_OneHandlerPerPid ==
  \A i, j \in 1..Len(Registry) :
    i # j => handlers[Registry[i]].pid # handlers[Registry[j]].pid

-----------------------------------------------------------------------------
\* Timestamps

\* the 33-bit PTS the generator wrote into the unit-start packet at stream
\* offset from (TailDesc gives the i-th tail packet the PTS 90 * i)
RawPtsAt(from) == 90 * ((from \div PacketSize) - 1)

\* stream offsets of the video unit-start packets dispatched so far
VideoStarts == SelectSeq(hist.parsed, LAMBDA f : DescAt(f).k = "VS")

\* C13: a video access unit handed to the caller carries the timestamp
\* (raw * 1000) / 45, raw being the 33-bit PTS of its unit-start packet
\* (whose PES flags have bit 0x80 set).
C13_TimestampOfPts ==
  (ReadReturned(TYPE_VIDEO, RESULT_READ_SAMPLE_FULL) /\ result.holder.cap >= 0) =>
     result.holder.timeUs =
       (RawPtsAt(VideoStarts[Len(hist.deq[TYPE_VIDEO])]) * 1000) \div 45

-----------------------------------------------------------------------------
\* Sample pool

\* the free list, from recycledSamples on
FreeList == ChainSamples(samples, recycledSamples, Len(samples) + 1)

\* C14: (a) a read that returns a unit puts its sample at the head of the
\* free list with its capacity unchanged; (b) acquiring from a non-empty
\* free list allocates nothing and returns its head with position 0,
\* timestamp 0, no link and its capacity (at least 64 KiB) unchanged, so a
\* sample released and acquired again comes back with the capacity it had;
\* (c) acquiring from an empty free list allocates one sample of 64 KiB;
\* (d) when a unit start acquires a sample, the sample's visible bytes are
\* those of the unit start alone.
C14_PoolRecycling ==
  /\ [](recycledSamples # NULL =>
          LET c == sample_create(World)
              s == recycledSamples
          IN /\ c.s = s
             /\ Len(c.w.samples) = Len(samples)
             /\ c.w.recycledSamples = samples[s].next
             /\ c.w.samples[s].position = 0
             /\ c.w.samples[s].timeUs = 0
             /\ c.w.samples[s].next = NULL
             /\ c.w.samples[s].maxSize = samples[s].maxSize
             /\ c.w.samples[s].maxSize >= SampleInitialSize)
  /\ [](recycledSamples = NULL =>
          LET c == sample_create(World)
          IN /\ c.s = Len(samples) + 1
             /\ Len(c.w.samples) = Len(samples) + 1
             /\ c.w.samples[c.s].maxSize = SampleInitialSize
             /\ c.w.samples[c.s].position = 0
             /\ c.w.samples[c.s].next = NULL)
  /\ [][ /\ \A t \in Types :
              Len(hist'.deq[t]) = Len(hist.deq[t]) + 1 =>
                LET s == tsp.sampleHead[t]
                IN /\ recycledSamples' = s
                   /\ samples'[s].next = recycledSamples
                   /\ samples'[s].maxSize = samples[s].maxSize
                   /\ Len(samples') = Len(samples)
         /\ hist'.units = hist.units + 1 =>
              LET d == DescAt(hist'.parsed[Len(hist'.parsed)])
              IN IF recycledSamples # NULL
                 THEN LET s == recycledSamples
                      IN /\ Len(samples') = Len(samples)
                         /\ recycledSamples' = samples[s].next
                         /\ samples'[s].unit = hist'.units
                         /\ samples'[s].maxSize = samples[s].maxSize
                         /\ SampleBytes(samples', s) = DescPayload(d)
                 ELSE /\ Len(samples') = Len(samples) + 1
                      /\ recycledSamples' = NULL
                      /\ samples'[Len(samples')].unit = hist'.units
                      /\ samples'[Len(samples')].maxSize = SampleInitialSize
                      /\ SampleBytes(samples', Len(samples')) = DescPayload(d)
       ]_vars

\* a sample that was resized once has been returned by a read and acquired again
C14_Witness ==
  /\ \E t \in Types : hist.deq[t] # << >>
  /\ \E s \in 1..Len(samples) :
       /\ samples[s].unit > s
       /\ samples[s].maxSize > SampleInitialSize
       /\ samples[s].position < PacketSize
       /\ \A i \in 1..Len(FreeList) : FreeList[i] # s

-----------------------------------------------------------------------------
\* Section reassembly

SectionHandlers == HandlersOfKind("PAT") \cup HandlersOfKind("PMT")

\* the payload bytes of a packet: what follows the 4-byte header and the
\* adaptation field
PayloadOf(d) ==
  LET bytes == PacketBytes(d)
      from == IF d.af < 0 THEN 4 ELSE 5 + d.af
  IN SubSeq(bytes, from + 1, PacketSize)

\* the section_length field of a packet that starts a section
DeclaredLength(d) == (PayloadOf(d)[3] % 16) * 256 + PayloadOf(d)[4]

\* C15: a live section handler's write offset is between 0 and its section
\* length; and a packet dispatched to a section handler contributes
\* min(bytes it carries, bytes the section still needs): when it carries
\* fewer than the section needs the write offset advances by all of them and
\* the buffer holds them at the old write offset, otherwise the section is
\* completed with exactly its declared length and the rest of the packet is
\* not used.
C15_SectionBounded ==
  /\ [](\A h \in SectionHandlers :
          handlers[h].live =>
            /\ 0 <= handlers[h].sectionWriteOffset
            /\ handlers[h].sectionWriteOffset <= handlers[h].sectionLength)
  /\ [][ Len(hist'.parsed) = Len(hist.parsed) + 1 =>
           LET d == DescAt(hist'.parsed[Len(hist'.parsed)])
               ph == FindHandler(World, tsp.activePayloadHandlerHead, d.pid)
           IN (ph # NULL /\ ph \in SectionHandlers) =>
                LET idle == handlers[ph].sectionLength = 0
                    carried == IF idle THEN SubSeq(PayloadOf(d), 5, PacketSize - 4)
                               ELSE PayloadOf(d)
                    before == IF idle THEN 0 ELSE handlers[ph].sectionWriteOffset
                    needed == IF idle THEN DeclaredLength(d)
                              ELSE handlers[ph].sectionLength - before
                IN IF Len(carried) < needed
                   THEN /\ handlers'[ph].live
                        /\ handlers'[ph].sectionWriteOffset = before + Len(carried)
                        /\ handlers'[ph].sectionLength = before + needed
                        /\ SubSeq(handlers'[ph].section, before + 1, before + Len(carried))
                             = carried
                        /\ hist'.sections = hist.sections
                   ELSE /\ Len(hist'.sections) = Len(hist.sections) + 1
                        /\ LET c == hist'.sections[Len(hist'.sections)]
                           IN /\ c.sh = ph
                              /\ c.length = before + needed
                              /\ Len(c.data) = before + needed
                              /\ SubSeq(c.data, before + 1, before + needed)
                                   = SubSeq(carried, 1, needed)
    ]_vars

\* a section was completed by a packet that carried more bytes than the
\* section needed, and another by a continuation packet
C15_Witness ==
  /\ Len(hist.sections) = 2
  /\ hist.sections[1].length < PacketSize - 8
  /\ hist.sections[2].length > PacketSize - 8

RECURSIVE PidBytes(_, _)
\* the payload bytes of the packets on PID pid among those at the stream
\* offsets froms, in arrival order
PidBytes(froms, pid) ==
  IF froms = << >> THEN << >>
  ELSE (IF DescAt(Head(froms)).pid = pid THEN PayloadOf(DescAt(Head(froms))) ELSE << >>)
       \o PidBytes(Tail(froms), pid)

\* C16: the section callback runs only in a step that dispatches a packet to
\* a section handler and brings its write offset to the declared length, and
\* then exactly once, with the declared length and with the bytes gathered
\* before followed by the bytes this packet adds, and the handler's
\* sectionLength is 0 afterwards; a packet that does not complete the section
\* keeps the bytes gathered before.  Every callback recorded so far was made
\* with the declared length L of a dispatched packet of the handler's PID and
\* with the L bytes that follow that packet's section_length field in the
\* payloads of the PID, in arrival order; no handler has had two callbacks.
C16_SectionDelivered ==
  /\ [](\A i \in 1..Len(hist.sections) :
          LET c == hist.sections[i]
              pid == handlers[c.sh].pid
          IN /\ \A j \in 1..Len(hist.sections) :
                  hist.sections[j].sh = c.sh => j = i
             /\ handlers[c.sh].sectionLength = 0
             /\ \E k \in 1..Len(hist.parsed) :
                  /\ DescAt(hist.parsed[k]).pid = pid
                  /\ c.length = DeclaredLength(DescAt(hist.parsed[k]))
                  /\ LET bytes == PidBytes(SubSeq(hist.parsed, k, Len(hist.parsed)), pid)
                     IN /\ Len(bytes) >= 4 + c.length
                        /\ c.data = SubSeq(bytes, 5, 4 + c.length))
  /\ [][ hist'.sections # hist.sections =>
           /\ Len(hist'.parsed) = Len(hist.parsed) + 1
           /\ Len(hist'.sections) = Len(hist.sections) + 1
           /\ SubSeq(hist'.sections, 1, Len(hist.sections)) = hist.sections
           /\ LET d == DescAt(hist'.parsed[Len(hist'.parsed)])
                  ph == FindHandler(World, tsp.activePayloadHandlerHead, d.pid)
                  c == hist'.sections[Len(hist'.sections)]
                  idle == handlers[ph].sectionLength = 0
                  before == IF idle THEN 0 ELSE handlers[ph].sectionWriteOffset
                  L == IF idle THEN DeclaredLength(d) ELSE handlers[ph].sectionLength
                  carried == IF idle THEN SubSeq(PayloadOf(d), 5, PacketSize - 4)
                             ELSE PayloadOf(d)
              IN /\ ph # NULL /\ ph \in SectionHandlers
                 /\ c.sh = ph /\ c.length = L
                 /\ Len(carried) >= L - before
                 /\ c.data = SubSeq(handlers[ph].section, 1, before)
                               \o SubSeq(carried, 1, L - before)
                 /\ handlers'[ph].sectionLength = 0
    ]_vars
  /\ [][ (/\ Len(hist'.parsed) = Len(hist.parsed) + 1
          /\ hist'.sections = hist.sections) =>
           LET d == DescAt(hist'.parsed[Len(hist'.parsed)])
               ph == FindHandler(World, tsp.activePayloadHandlerHead, d.pid)
           IN (ph # NULL /\ ph \in SectionHandlers) =>
                LET before == IF handlers[ph].sectionLength = 0 THEN 0
                              ELSE handlers[ph].sectionWriteOffset
                IN /\ handlers'[ph].sectionWriteOffset > before
                   /\ handlers'[ph].sectionWriteOffset < handlers'[ph].sectionLength
                   /\ SubSeq(handlers'[ph].section, 1, before)
                        = SubSeq(handlers[ph].section, 1, before)
    ]_vars

\* the section carried by a unit-start packet and a continuation packet has
\* been delivered
C16_Witness ==
  \E i \in 1..Len(hist.sections) :
    /\ hist.sections[i].length = Len(PmtBodyLong(BasicTables.pmt, LongInfo)) - 4
    /\ hist.sections[i].length > PacketSize - 8
    /\ handlers[hist.sections[i].sh].kind = "PMT"
    /\ PmtDone

\* C17 (as claimed): a packet without unit_start dispatched to a section
\* handler in Idle state (sectionLength = 0) starts no section: the handler
\* stays registered and idle, its write offset and buffer are unchanged and
\* no section callback runs.
C17_StartOnlyOnUnitStart ==
  [][ Len(hist'.parsed) = Len(hist.parsed) + 1 =>
        LET d == DescAt(hist'.parsed[Len(hist'.parsed)])
            ph == FindHandler(World, tsp.activePayloadHandlerHead, d.pid)
        IN (/\ ph # NULL /\ ph \in SectionHandlers
            /\ handlers[ph].sectionLength = 0
            /\ d.us = 0) =>
             /\ handlers'[ph].live
             /\ handlers'[ph].sectionLength = 0
             /\ handlers'[ph].sectionWriteOffset = handlers[ph].sectionWriteOffset
             /\ handlers'[ph].section = handlers[ph].section
             /\ hist'.sections = hist.sections
             /\ Len(handlers') = Len(handlers)
    ]_vars

-----------------------------------------------------------------------------
\* Handler lifetimes

\* C18: before the first packet is dispatched the registry holds exactly one
\* handler, the PAT handler at PID 0; there is never a second PAT handler;
\* no section handler has had more than one callback; a section handler is
\* on the registry exactly as long as it has had no callback, and is freed
\* by then; every PES handler is live and registered, and stays registered
\* in every step.
C18_HandlerLifetimes ==
  /\ [](hist.parsed = << >> =>
          /\ Len(handlers) = 1
          /\ Registry = << 1 >>
          /\ handlers[1].kind = "PAT" /\ handlers[1].pid = 0 /\ handlers[1].live)
  /\ [](Cardinality(HandlersOfKind("PAT")) = 1)
  /\ [](\A h \in SectionHandlers :
          LET calls == {i \in 1..Len(hist.sections) : hist.sections[i].sh = h}
          IN /\ Cardinality(calls) <= 1
             /\ Registered(h) <=> calls = {}
             /\ handlers[h].live <=> calls = {})
  /\ [](\A h \in HandlersOfKind("PES") : handlers[h].live /\ Registered(h))
  /\ [][\A h \in 1..Len(handlers) :
          (handlers[h].kind = "PES" /\ Registered(h)) =>
             /\ handlers'[h].kind = "PES" /\ handlers'[h].pid = handlers[h].pid
             /\ \E i \in 1..Len(Registry') : Registry'[i] = h]_vars

\* the PAT handler and two PMT handlers have each had their callback, and
\* the PES handlers registered by the first PMT callback are still there
\* after the second
C18_Witness ==
  /\ Len(hist.sections) = 3
  /\ HandlersOfKind("PES") # {}
  /\ \A h \in HandlersOfKind("PES") : Registered(h)
  /\ \A h \in SectionHandlers : ~Registered(h)
  /\ \E t \in Types : hist.deq[t] # << >>

\* C19 (as claimed): whenever the PAT handler has been removed, a PMT
\* handler has been registered.
C19_PatLeavesAfterPmt ==
  PatDone => HandlersOfKind("PMT") # {}

-----------------------------------------------------------------------------
\* Packets of other PIDs

\* C20: a step that dispatches a packet whose PID is the PID of no handler
\* on the registry leaves the handlers (registry links, continuity counters,
\* section and PES state), the samples, both queues, the free list and the
\* audio configuration as they were, raises no diagnostic and creates no
\* unit: of the parser's fields only the read cursor differs from those at
\* the start of the dispatch, by 188.
C20_UnknownPidIgnored ==
  [][ Len(hist'.parsed) = Len(hist.parsed) + 1 =>
        LET d == DescAt(hist'.parsed[Len(hist'.parsed)])
        IN (\A i \in 1..Len(Registry) : handlers[Registry[i]].pid # d.pid) =>
             /\ handlers' = handlers
             /\ samples' = samples
             /\ recycledSamples' = recycledSamples
             /\ Registry' = Registry
             /\ \A t \in Types :
                  /\ QueueSamples(t)' = QueueSamples(t)
                  /\ tsp'.sampleLastNext[t] = tsp.sampleLastNext[t]
             /\ tsp'.sampleRateIndex = tsp.sampleRateIndex
             /\ tsp'.channelConfigIndex = tsp.channelConfigIndex
             /\ tsp'.audioConfigFound = tsp.audioConfigFound
             /\ tsp' = [PreDispatch.tsp EXCEPT !.dataPosition = @ + PacketSize]
             /\ diag' = PreDispatch.diag
             /\ crashed' = crashed
             /\ [hist' EXCEPT !.parsed = hist.parsed, !.dataBase = hist.dataBase,
                             !.request = hist.request] = hist
    ]_vars

\* a packet of a PID without handler has been dispatched while the PES
\* handlers were registered and one of them held a unit in progress
C20_Witness ==
  /\ PmtDone
  /\ \E k \in 1..Len(hist.parsed) : DescAt(hist.parsed[k]).k = "XX"
  /\ DescAt(hist.parsed[Len(hist.parsed)]).k = "XX"
  /\ \E h \in HandlersOfKind("PES") : handlers[h].currentSample # NULL

-----------------------------------------------------------------------------
\* Packet framer

\* C21: while the incomplete offset is set it is the number of bytes
\* accumulated since the last read at offset 0.  A step that starts with
\* the incomplete offset set and reads the source asks it to write at that
\* offset at most BUFFER_SIZE minus that offset bytes; the bytes below the
\* offset are unchanged and the bytes the source returned follow them; the
\* read cursor and the committed size are unchanged unless the bytes
\* returned bring the count to a multiple of 188, in which case the count
\* becomes the committed size and the first packet is dispatched.  A step
\* that reads nothing changes neither the buffer nor the framer's fields.
C21_ResumeAtIncomplete ==
  /\ [](tsp.dataIncompletePosition # 0 =>
          /\ tsp.dataIncompletePosition = srcPos - hist.dataBase
          /\ tsp.dataIncompletePosition % PacketSize # 0)
  /\ [][ tsp.dataIncompletePosition # 0 =>
           LET dip == tsp.dataIncompletePosition
               n == srcPos' - srcPos
           IN /\ SubSeq(tsp'.data, 1, dip) = SubSeq(tsp.data, 1, dip)
              /\ (n > 0 \/ hist'.request # hist.request \/ srcEnded' # srcEnded) =>
                   /\ hist'.request = [offset |-> dip, length |-> BUFFER_SIZE - dip]
                   /\ n <= hist'.request.length
                   /\ SubSeq(tsp'.data, dip + 1, dip + n) = StreamBytes(stream, srcPos, n)
              /\ IF n > 0 /\ (dip + n) % PacketSize = 0
                 THEN /\ tsp'.dataSize = dip + n
                      /\ tsp'.dataIncompletePosition = 0
                      /\ tsp'.dataPosition = PacketSize
                      /\ Len(hist'.parsed) = Len(hist.parsed) + 1
                 ELSE /\ tsp'.dataSize = tsp.dataSize
                      /\ tsp'.dataPosition = tsp.dataPosition
                      /\ tsp'.dataIncompletePosition = dip + n
                      /\ hist'.parsed = hist.parsed
    ]_vars

\* two packets were committed by reads that resumed at an incomplete offset
\* (no single read returns that much) and dispatched, and the reads that
\* followed left the count off a 188 boundary again
C21_Witness ==
  /\ tsp.dataIncompletePosition = ChunkUnit
  /\ hist.request.offset = ChunkUnit
  /\ tsp.dataSize = 2 * PacketSize
  /\ tsp.dataSize > MaxChunkUnits * ChunkUnit
  /\ Len(hist.parsed) >= 2

-----------------------------------------------------------------------------
\* Audio configuration

\* C22: once audioConfigFound is set, it stays set and the sample-rate index
\* and the channel-configuration index never change; they are then the
\* fields (h[2] & 0x3c) >> 2 and ((h[2] & 1) << 2) + (h[3] >> 6) of the first
\* audio unit whose bytes start with 0xFF and a high nibble 0xF, a unit that
\* has been followed by another unit start; and before that they are 0.
C22_AudioConfigOnce ==
  /\ [][ tsp.audioConfigFound # 0 =>
           /\ tsp'.audioConfigFound = tsp.audioConfigFound
           /\ tsp'.sampleRateIndex = tsp.sampleRateIndex
           /\ tsp'.channelConfigIndex = tsp.channelConfigIndex ]_vars
  /\ [](LET units == IF PmtDone THEN ExpectedUnits(TYPE_AUDIO) ELSE << >>
            synced == {i \in 1..Len(units) :
                         /\ Len(units[i]) >= 4
                         /\ units[i][1] = 255 /\ units[i][2] \div 16 = 15}
            done == {i \in synced : i < Len(units)}
        IN IF done = {}
           THEN /\ tsp.audioConfigFound = 0
                /\ tsp.sampleRateIndex = 0 /\ tsp.channelConfigIndex = 0
           ELSE LET h == units[CHOOSE i \in done : \A j \in done : i <= j]
                IN /\ tsp.audioConfigFound = 1
                   /\ tsp.sampleRateIndex = (h[3] % 64) \div 4
                   /\ tsp.channelConfigIndex = (h[3] % 2) * 4 + (h[4] \div 64))

\* the configuration was taken from the second audio unit, the first having
\* no sync word, and a third unit with another ADTS header has been finished
C22_Witness ==
  /\ stream = AdtsStream
  /\ Len(hist.enq[TYPE_AUDIO]) >= 3
  /\ tsp.audioConfigFound = 1
  /\ tsp.sampleRateIndex = 4 /\ tsp.channelConfigIndex = 2
  /\ "no ADTS sync" \in diag

-----------------------------------------------------------------------------
\* The index probes on streams without a continuation ahead of its unit
\* start, with and without bytes after the last whole packet.  The caller
\* may call read, isReadFinished and the probes in any order.

ProbeOps == {"sri", "cci"}

ProbeStreams ==
  { MkStream(BasicTables, ks, r) : ks \in {k \in Tails : CleanTail(k)}, r \in {0, TrailBytes} }
  \cup { MkStream(t, << "AS", "VS" >>, 0) : t \in OtherTables }

ProbeInit == \E st \in ProbeStreams : InitWith(st)

\* an iteration of the probe loop in which the source hands over bytes or
\* reports its end, or that parses a packet already in the working buffer
DeliveringProbe ==
  /\ NativeGetIndex_Iterate
  /\ \/ ~NeedRefill(World)
     \/ srcPos' # srcPos
     \/ srcEnded' # srcEnded

\* the enabling condition of <<NativeGetIndex_Iterate>>_vars as a state
\* predicate: an iteration can always change pc, hist.parsed or srcPos
ProbeLooping ==
  pc.op \in ProbeOps /\ ~crashed /\ tsp.audioConfigFound = 0 /\ pc.type = 0

\* The probe loop and the return run to completion (weak fairness) and the
\* source does not return 0 forever (strong fairness), written out with the
\* enabling conditions as in LiveFairness.
ProbeFairness ==
  /\ ([]<>~ProbeLooping \/ []<><<NativeGetIndex_Iterate>>_vars)
  /\ (<>[]~(ProbeLooping /\ (~NeedRefill(World) \/ ~srcEnded))
        \/ []<><<DeliveringProbe>>_vars)
  /\ WF_vars(NativeGetIndex_Finish)

ProbeSpec == ProbeInit /\ [][Next]_vars /\ ProbeFairness

\* C23: a call of getSampleRateIndex or getChannelConfigIndex returns only
\* when the audio configuration has been found or the source has reported
\* its end, with the index the session holds then, and it takes nothing off
\* the queues; and every such call returns.
C23_ProbesTerminate ==
  /\ [][ (pc.op \in ProbeOps /\ pc'.op = "idle") =>
           /\ tsp.audioConfigFound # 0 \/ (srcEnded /\ tsp.inputStreamFinished # 0)
           /\ result'.op = pc.op
           /\ result'.ret = IF pc.op = "sri" THEN tsp.sampleRateIndex
                            ELSE tsp.channelConfigIndex ]_vars
  /\ \A op \in ProbeOps :
       (pc.op = op) ~> (pc.op = "idle" /\ result.op = op)

\* a probe has returned at the end of a stream without audio, after the
\* source had returned 0 and a chunk that ended off a 188 boundary
C23_Witness ==
  /\ result.op \in ProbeOps /\ pc.op = "idle"
  /\ tsp.audioConfigFound = 0 /\ srcEnded
  /\ hist.made[TYPE_VIDEO] # << >>
  /\ Len(hist.parsed) = WholePackets

-----------------------------------------------------------------------------
\* Declared and accumulated size of an access unit

\* the size of the unit a unit-start packet declares: PES_packet_length
\* less the header bytes that follow it, 0 when the field is 0 (lines 284, 311)
DeclaredSize(d) ==
  LET raw == d.body[5] * 256 + d.body[6]
  IN IF raw > 0 THEN raw - (d.body[9] + 3) ELSE 0

\* C24: for a program whose audio and video streams have different PIDs,
\* every unit that a later unit start or the end of the stream has
\* completed is enqueued, whatever size its PES header declared; and a read
\* that returns a unit whose accumulated size differs from the non-zero
\* declared size sets the holder's position to the accumulated size and, if
\* the holder is large enough, fills it with the accumulated bytes.
C24_AccumulatedSizeDelivered ==
  (PmtDone /\ FirstEntry(TYPE_AUDIO).pid # FirstEntry(TYPE_VIDEO).pid) =>
    \A t \in Types :
      LET us == ExpectedUnits(t)
          starts == SelectSeq(hist.parsed,
                              LAMBDA f : /\ DescAt(f).pid = FirstEntry(t).pid
                                         /\ DescAt(f).us = 1)
          nd == Len(hist.deq[t])
      IN /\ Len(starts) = Len(us)
         /\ Len(hist.made[t]) = Len(us)
         /\ hist.enq[t] = SubSeq(hist.made[t], 1, Len(hist.enq[t]))
         /\ Len(hist.enq[t]) >= Len(us) - 1
         /\ (crashed \/ srcEnded) \/ Len(hist.enq[t]) = Len(us) - 1 \/ us = << >>
         /\ (srcEnded /\ ~crashed) => Len(hist.enq[t]) = Len(us)
         /\ (/\ ReadReturned(t, RESULT_READ_SAMPLE_FULL)
             /\ result.holder.cap >= 0
             /\ DeclaredSize(DescAt(starts[nd])) # 0
             /\ DeclaredSize(DescAt(starts[nd])) # Len(us[nd])) =>
               /\ result.holder.position = Len(us[nd])
               /\ result.holder.cap >= Len(us[nd]) => result.holder.data = us[nd]

\* a read has delivered a video unit of 11 bytes whose PES header declared 6,
\* after the mismatch was logged
C24_Witness ==
  /\ ReadReturned(TYPE_VIDEO, RESULT_READ_SAMPLE_FULL)
  /\ result.holder.cap = SampleInitialSize
  /\ Len(result.holder.data) = 11
  /\ "PES length" \in diag
  /\ DeclaredSize(DescAt(VideoStarts[Len(hist.deq[TYPE_VIDEO])])) = 6

-----------------------------------------------------------------------------
\* Ownership of samples

\* where sample s is held in the state (hs, ss, ts, rs) = (handlers,
\* samples, tsp, recycledSamples): one entry "H" per PES handler whose
\* current sample it is, one "Q" per occurrence in a queue, one "P" per
\* occurrence in the free list
PlacesOf(hs, ss, ts, rs, s) ==
  LET inH == {h \in 1..Len(hs) : hs[h].live /\ hs[h].isPES # 0 /\ hs[h].currentSample = s}
      q(t) == ChainSamples(ss, ts.sampleHead[t], Len(ss) + 1)
      inQ == {<<t, i>> \in Types \X (1..(Len(ss) + 1)) : i <= Len(q(t)) /\ q(t)[i] = s}
      p == ChainSamples(ss, rs, Len(ss) + 1)
      inP == {i \in 1..Len(p) : p[i] = s}
  IN [H |-> Cardinality(inH), Q |-> Cardinality(inQ), P |-> Cardinality(inP)]

\* C25 (as claimed): every sample is held in exactly one place; a step moves
\* it only from a handler to a queue, from a queue to the free list or from
\* the free list to a handler; and a step that moves it from a queue to the
\* free list has copied its accumulated bytes to the caller's holder.
C25_SingleOwner ==
  /\ [](\A s \in 1..Len(samples) :
          LET p == PlacesOf(handlers, samples, tsp, recycledSamples, s)
          IN p.H + p.Q + p.P = 1)
  /\ [][\A s \in 1..Len(samples) :
          LET p == PlacesOf(handlers, samples, tsp, recycledSamples, s)
              n == PlacesOf(handlers', samples', tsp', recycledSamples', s)
          IN /\ (p.H = 1 /\ n.H = 0) => n.Q = 1
             /\ (p.Q = 1 /\ n.Q = 0) => n.P = 1
             /\ (p.P = 1 /\ n.P = 0) => n.H = 1
             /\ (p.Q = 1 /\ n.P = 1) =>
                  /\ result'.ret = RESULT_READ_SAMPLE_FULL
                  /\ result'.holder.data = SampleBytes(samples, s)]_vars

\* C26 (as claimed): a read that returns RESULT_READ_SAMPLE_FULL takes the
\* head sample of its queue and leaves in the caller's holder all the
\* accumulated bytes of that sample, its timestamp and the sync flag.
C26_FullMeansCopied ==
  [][ (pc.op \in {"read", "readTail"} /\ pc'.op = "idle"
       /\ result'.ret = RESULT_READ_SAMPLE_FULL) =>
        LET s == tsp.sampleHead[pc.type]
        IN /\ s # NULL
           /\ hist'.deq[pc.type] = Append(hist.deq[pc.type], samples[s].unit)
           /\ Len(result'.holder.data) = samples[s].position
           /\ result'.holder.data = SampleBytes(samples, s)
           /\ result'.holder.timeUs = samples[s].timeUs
           /\ result'.holder.flags = SAMPLE_FLAG_SYNC
    ]_vars

-----------------------------------------------------------------------------
\* A unit that outgrows the initial capacity.  The sessions on GrowStream are
\* taken up between two calls: the source returned one packet per read and
\* then had nothing to give, so that the call came back.  One session is
\* taken up when the tables, the unit start and all continuation packets but
\* the last have been parsed, the other one packet later.

RECURSIVE ParsePackets(_, _)
\* the world after n more calls of tsparser_parse_one_packet to each of
\* which the source returns a whole packet
ParsePackets(w, n) ==
  IF n = 0 THEN w
  ELSE IF n = 1 THEN tsparser_parse_one_packet(w, PacketSize).w
  ELSE LET half == ParsePackets(w, n \div 2)
       IN IF half.crashed THEN half ELSE ParsePackets(half, n - (n \div 2))

\* the world when the call of w comes back because the source gives nothing
CallReturns(w) == tsparser_parse_one_packet(w, 0).w

GrowBefore == ParsePackets(InitWorld(GrowStream), 2 + GrowPackets)

GrowSessions == { CallReturns(GrowBefore), CallReturns(ParsePackets(GrowBefore, 1)) }

GrowInit == \E w \in GrowSessions : InitWorldState(w)

GrowSpec == GrowInit /\ [][Next]_vars

\* C27: every sample's position is between 0 and its capacity, which is at
\* least 64 KiB.  No step reduces a capacity; a step changes the capacity of
\* a sample only when it appends a continuation packet to it while
\* position + 188 exceeds the capacity, and then the new capacity is
\* 2 * (position + 188), the bytes accumulated before are unchanged and the
\* payload follows them; and no append takes the position over the
\* capacity the sample has after the step.
C27_PositionWithinCapacity ==
  /\ [](\A s \in 1..Len(samples) :
          /\ 0 <= samples[s].position
          /\ samples[s].position <= samples[s].maxSize
          /\ samples[s].maxSize >= SampleInitialSize)
  /\ [][\A s \in 1..Len(samples) :
          /\ samples'[s].maxSize >= samples[s].maxSize
          /\ samples'[s].maxSize # samples[s].maxSize =>
               LET d == DescAt(hist'.parsed[Len(hist'.parsed)])
               IN /\ Len(hist'.parsed) = Len(hist.parsed) + 1
                  /\ d.us = 0
                  /\ samples[s].position + PacketSize > samples[s].maxSize
                  /\ samples'[s].maxSize = 2 * (samples[s].position + PacketSize)
                  /\ samples'[s].position = samples[s].position + Len(DescPayload(d))
                  /\ SampleBytes(samples', s) = SampleBytes(samples, s) \o DescPayload(d)
          /\ (samples'[s].position > samples[s].maxSize) =>
               samples'[s].maxSize > samples[s].maxSize]_vars

\* a unit has outgrown the initial 64 KiB and has been queued
C27_Witness ==
  \E s \in 1..Len(samples) :
    /\ samples[s].position = 6 + GrowPackets * (PacketSize - 4)
    /\ samples[s].position > SampleInitialSize
    /\ samples[s].maxSize = 2 * (samples[s].position + 4)
    /\ \E h \in 1..Len(handlers) :
         /\ handlers[h].kind = "PES" /\ handlers[h].type = TYPE_VIDEO
         /\ handlers[h].currentSample = s

-----------------------------------------------------------------------------
\* Continuation packets and the unit in progress

\* C28 (as claimed): whenever a packet without payload_unit_start is
\* dispatched to a PES handler, the handler has a current sample to append
\* to, also when the first packet of its PID is a continuation packet.
C28_ContinuationHasUnit ==
  [][ Len(hist'.parsed) = Len(hist.parsed) + 1 =>
        LET d == DescAt(hist'.parsed[Len(hist'.parsed)])
            ph == FindHandler(World, tsp.activePayloadHandlerHead, d.pid)
        IN (ph # NULL /\ handlers[ph].kind = "PES" /\ d.us = 0) =>
             handlers[ph].currentSample # NULL
    ]_vars

-----------------------------------------------------------------------------
\* The framer: from the source's chunks to whole packets

\* the bytes of the packet the step has just presented to the PID dispatch
Presented(t, d) == SubSeq(d, t.dataPosition - PacketSize + 1, t.dataPosition)

\* C29: for a stream of a multiple of 188 bytes, whatever chunks the source
\* returns, the k-th packet presented to the PID dispatch is the k-th packet
\* of the stream, byte for byte: a step presents at most one packet, the
\* packets are presented in stream order without gap or repetition, never
\* more than the stream has, and all of them once end of input is noted.
C29_EveryPacketOnce ==
  /\ [](stream.trail = 0 =>
          /\ Len(hist.parsed) <= WholePackets
          /\ \A i \in 1..Len(hist.parsed) : hist.parsed[i] = (i - 1) * PacketSize
          /\ tsp.inputStreamFinished # 0 => Len(hist.parsed) = WholePackets)
  /\ [][(stream.trail = 0 /\ hist'.parsed # hist.parsed) =>
          /\ Len(hist'.parsed) = Len(hist.parsed) + 1
          /\ SubSeq(hist'.parsed, 1, Len(hist.parsed)) = hist.parsed
          /\ tsp'.dataPosition >= PacketSize
          /\ tsp'.dataPosition <= Len(tsp'.data)
          /\ Presented(tsp', tsp'.data) = PacketBytes(stream.pkts[Len(hist'.parsed)])
     ]_vars

\* two packets committed together after reads that ended off a packet
\* boundary, both presented, after earlier packets
C29_Witness ==
  /\ stream.trail = 0
  /\ tsp.dataSize = 2 * PacketSize /\ tsp.dataSize > MaxChunkUnits * ChunkUnit
  /\ tsp.dataPosition = tsp.dataSize
  /\ hist.dataBase > 0
  /\ Len(hist.parsed) = WholePackets

\* C30: the read cursor and the committed size are multiples of 188 with
\* 0 <= cursor <= size <= BUFFER_SIZE; the incomplete offset is 0 or a
\* non-multiple of 188 below BUFFER_SIZE; while the incomplete offset is not
\* 0 the cursor is at the committed size; and the source is only asked to
\* write when every committed packet has been dispatched.
C30_FramerInvariant ==
  /\ [](/\ tsp.dataPosition % PacketSize = 0
        /\ tsp.dataSize % PacketSize = 0
        /\ 0 <= tsp.dataPosition
        /\ tsp.dataPosition <= tsp.dataSize
        /\ tsp.dataSize <= BUFFER_SIZE
        /\ \/ tsp.dataIncompletePosition = 0
           \/ /\ tsp.dataIncompletePosition % PacketSize # 0
              /\ 0 < tsp.dataIncompletePosition
              /\ tsp.dataIncompletePosition < BUFFER_SIZE
        /\ tsp.dataIncompletePosition # 0 => tsp.dataPosition = tsp.dataSize)
  /\ [][(srcPos' # srcPos \/ srcEnded' # srcEnded \/ hist'.request # hist.request)
          => tsp.dataPosition = tsp.dataSize]_vars

\* after dispatched packets, reads that ended inside a packet have taken the
\* incomplete offset beyond the committed size
C30_Witness ==
  /\ tsp.dataSize = PacketSize
  /\ tsp.dataPosition = tsp.dataSize
  /\ tsp.dataIncompletePosition > tsp.dataSize
  /\ Len(hist.parsed) >= 2

-----------------------------------------------------------------------------
\* Adaptation fields

\* C31 (as claimed): the payload offset handed to a handler is 4 without
\* adaptation field and 5 + adaptation_field_length with one, it is never
\* more than 188, so no handler copies a negative number of bytes, and no
\* sample's position decreases while the sample stays in use.
C31_PayloadOffsetBounded ==
  [][ Len(hist'.parsed) = Len(hist.parsed) + 1 =>
        LET packet == Presented(tsp', tsp'.data)
            pid == (packet[2] % 32) * 256 + packet[3]
            payload_offset == IF (packet[4] \div 32) % 2 = 1 THEN 5 + packet[5] ELSE 4
        IN FindHandler(World, tsp.activePayloadHandlerHead, pid) # NULL =>
             /\ payload_offset <= PacketSize
             /\ "memcpy with negative size" \notin diag'
             /\ \A s \in 1..Len(samples) :
                  samples'[s].unit = samples[s].unit =>
                    samples'[s].position >= samples[s].position
    ]_vars

-----------------------------------------------------------------------------
\* End of stream

\* C32: once the source has reported end of input the flag
\* inputStreamFinished stays set, no step dispatches a packet, creates a
\* sample or adds one to a queue; and once a read of a type has returned
\* RESULT_END_OF_STREAM every read of that type that returns afterwards
\* returns RESULT_END_OF_STREAM.
C32_EndIsPermanent ==
  /\ [](srcEnded <=> tsp.inputStreamFinished # 0)
  /\ [][tsp.inputStreamFinished # 0 =>
          /\ tsp'.inputStreamFinished # 0
          /\ hist'.parsed = hist.parsed
          /\ hist'.made = hist.made
          /\ hist'.enq = hist.enq]_vars
  /\ [](ReadReturned(TYPE_VIDEO, RESULT_END_OF_STREAM) =>
          []((result.op = "read" /\ result.type = TYPE_VIDEO) =>
               result.ret = RESULT_END_OF_STREAM))
  /\ [](ReadReturned(TYPE_AUDIO, RESULT_END_OF_STREAM) =>
          []((result.op = "read" /\ result.type = TYPE_AUDIO) =>
               result.ret = RESULT_END_OF_STREAM))

\* a read of audio returns end of stream after the video queue, filled by
\* the flush, has been emptied by reads that came after the end of input
C32_Witness ==
  /\ ReadReturned(TYPE_AUDIO, RESULT_END_OF_STREAM)
  /\ Len(hist.deq[TYPE_VIDEO]) >= 1
  /\ hist.deq[TYPE_VIDEO] = hist.enq[TYPE_VIDEO]
  /\ Len(hist.parsed) = WholePackets

-----------------------------------------------------------------------------
\* What a call takes from the queues

\* C33: a step either leaves the units of a queue in place, possibly with new
\* ones behind them, or it is the return of a read of that queue's type with
\* RESULT_READ_SAMPLE_FULL, which removes the head alone and leaves the other
\* queue as it is.  So the probes remove nothing, a read removes nothing of
\* the other type, and a queued unit leaves its queue only as the head
\* returned by a read of its type.
C33_ReadsRemoveOne ==
  [][\A t \in Types :
       \/ IsPrefix(QueueUnits(t), QueueUnits(t)')
       \/ /\ pc.op \in {"read", "readTail"} /\ pc.type = t /\ pc'.op = "idle"
          /\ result'.op = "read" /\ result'.type = t
          /\ result'.ret = RESULT_READ_SAMPLE_FULL
          /\ QueueUnits(t) # << >>
          /\ QueueUnits(t)' = Tail(QueueUnits(t))
          /\ hist'.deq[t] = Append(hist.deq[t], Head(QueueUnits(t)))
          /\ QueueUnits(Other(t))' = QueueUnits(Other(t))
    ]_vars

\* a probe has returned and the two video units completed while it drove
\* the packet loop are queued
C33_Witness ==
  /\ result.op \in ProbeOps
  /\ Len(QueueUnits(TYPE_VIDEO)) = 2
  /\ hist.deq[TYPE_VIDEO] = << >>

-----------------------------------------------------------------------------
\* Audio configuration of units completed by the end of input

\* C34 (as claimed): when a step adds a unit to the audio queue while the
\* audio configuration has not been found, and the unit starts with the ADTS
\* sync word, the configuration is found after the step, whether the unit
\* was completed by the next unit start or by the flush at end of input.
C34_InspectedOnEnqueue ==
  [][ (Len(hist'.enq[TYPE_AUDIO]) > Len(hist.enq[TYPE_AUDIO])
       /\ tsp.audioConfigFound = 0) =>
        LET q == ChainSamples(samples', tsp'.sampleHead[TYPE_AUDIO], Len(samples') + 1)
            h == samples'[q[Len(q)]].data
        IN (q # << >> /\ ByteAt(h, 0) = 255 /\ ByteAt(h, 1) \div 16 = 15) =>
             tsp'.audioConfigFound # 0
    ]_vars

-----------------------------------------------------------------------------
\* The expected length of a unit

-----------------------------------------------------------------------------
\* Termination of a read call

\* The native loop and the call tail run on (weak fairness); nothing is
\* assumed of the caller or of what the source returns.
\* WF_vars(NativeRead_Iterate) is written out with its enabling condition.
CallFairness ==
  /\ ([]<>~IterateEnabled \/ []<><<NativeRead_Iterate>>_vars)
  /\ WF_vars(\E cap \in HolderCaps : NativeRead_Finish(cap))

CallSpec == Init /\ [][Next]_vars /\ CallFairness

\* C36: a read that returns RESULT_NEED_MORE_DATA or RESULT_END_OF_STREAM
\* returns with the read cursor at the committed size, after a source
\* request of that call that committed no packet; an iteration whose source
\* request commits no packet is the last of its call; and every read call
\* returns, unless the process faults.
C36_ReadTerminates ==
  /\ [][(pc'.op = "idle" /\ result'.op = "read"
         /\ result'.ret \in {RESULT_NEED_MORE_DATA, RESULT_END_OF_STREAM}) =>
          /\ pc.op = "readTail"
          /\ tsp.dataPosition = tsp.dataSize]_vars
  /\ [][(pc.op = "read" /\ pc'.op = "readTail") =>
          /\ NeedRefill(World)
          /\ hist'.parsed = hist.parsed
          /\ hist'.request = [offset |-> RefillOffset(World),
                              length |-> RefillLength(World)]]_vars
  /\ [][(pc.op = "read" /\ pc'.op = "read") =>
          Len(hist'.parsed) = Len(hist.parsed) + 1]_vars
  /\ [][pc.op = "readTail" => pc'.op = "idle"]_vars
  /\ (pc.op = "read" ~> (pc.op = "idle" \/ crashed))

\* a read has returned RESULT_NEED_MORE_DATA after it dispatched packets and
\* the source then returned a chunk that ended inside a packet
C36_Witness ==
  /\ ReadReturned(TYPE_VIDEO, RESULT_NEED_MORE_DATA)
  /\ tsp.dataIncompletePosition # 0
  /\ tsp.dataPosition = tsp.dataSize
  /\ Len(hist.parsed) >= 2

-----------------------------------------------------------------------------
\* Several threads in the sample pool.  Each thread stands for a session on
\* its own thread, reduced to its calls of sample_create (from the PES
\* handler), sample_resize and sample_destroy (from nativeRead); it holds at
\* most one sample.  Every statement that reads or writes recycledSamples,
\* total_size or a link is a step of its own.  threads[t] is the position
\* of thread t, its local variable sample, and the value of total_size it
\* has loaded for an update (total_size is updated without the mutex in
\* sample_resize, so updates may be lost).

Threads == 1..PoolThreads

PoolFrame ==
  UNCHANGED << tsp, handlers, stream, srcPos, srcEnded, pc, result, diag, hist, crashed >>

PoolInit ==
  LET w == InitWorld(MkStream(BasicTables, << >>, 0))
  IN /\ tsp = w.tsp
     /\ handlers = w.handlers
     /\ samples = w.samples
     /\ recycledSamples = w.recycledSamples
     /\ total_size = w.total_size
     /\ sampleMutex = NULL
     /\ threads = [t \in Threads |-> [at |-> "out", sample |-> NULL, reg |-> 0]]
     /\ stream = w.stream
     /\ srcPos = w.srcPos
     /\ srcEnded = w.srcEnded
     /\ diag = w.diag
     /\ hist = w.hist
     /\ crashed = w.crashed
     /\ pc = Idle
     /\ result = NoResult

\* faulty variant: the lock is taken whether or not it is held
MutexAvailable_always == TRUE

\* pthread_mutex_lock(&sampleMutex) returns only when no thread holds it
MutexAvailable == sampleMutex = NULL

\* line 116: pthread_mutex_lock in sample_create
Create_Lock(t) ==
  /\ threads[t].at = "out" /\ threads[t].sample = NULL
  /\ MutexAvailable
  /\ sampleMutex' = t
  /\ threads' = [threads EXCEPT ![t].at = "create_test"]
  /\ UNCHANGED << samples, recycledSamples, total_size >>
  /\ PoolFrame

\* lines 117-118: if (recycledSamples) sample = recycledSamples
Create_Test(t) ==
  /\ threads[t].at = "create_test"
  /\ threads' = IF recycledSamples # NULL
                THEN [threads EXCEPT ![t].sample = recycledSamples,
                                     ![t].at = "create_unlink"]
                ELSE [threads EXCEPT ![t].at = "create_alloc"]
  /\ UNCHANGED << samples, recycledSamples, total_size, sampleMutex >>
  /\ PoolFrame

\* lines 119-122: recycledSamples = sample->next and the reset of the sample
Create_Unlink(t) ==
  /\ threads[t].at = "create_unlink"
  /\ LET s == threads[t].sample
     IN /\ recycledSamples' = samples[s].next
        /\ samples' = [samples EXCEPT ![s].position = 0, ![s].timeUs = 0,
                                      ![s].next = NULL]
  /\ threads' = [threads EXCEPT ![t].at = "create_unlock"]
  /\ UNCHANGED << total_size, sampleMutex >>
  /\ PoolFrame

\* lines 124-128: a new sample of 64 KiB; total_size is loaded for the update
Create_Alloc(t) ==
  /\ threads[t].at = "create_alloc"
  /\ samples' = Append(samples, NewSample)
  /\ threads' = [threads EXCEPT ![t].sample = Len(samples) + 1,
                                ![t].reg = total_size,
                                ![t].at = "create_add"]
  /\ UNCHANGED << recycledSamples, total_size, sampleMutex >>
  /\ PoolFrame

\* line 128: total_size += sample->maxSize, the store
Create_Add(t) ==
  /\ threads[t].at = "create_add"
  /\ total_size' = threads[t].reg + samples[threads[t].sample].maxSize
  /\ threads' = [threads EXCEPT ![t].at = "create_unlock"]
  /\ UNCHANGED << samples, recycledSamples, sampleMutex >>
  /\ PoolFrame

\* lines 135-136: pthread_mutex_unlock and return sample
Create_Unlock(t) ==
  /\ threads[t].at = "create_unlock"
  /\ sampleMutex' = NULL
  /\ threads' = [threads EXCEPT ![t].at = "own"]
  /\ UNCHANGED << samples, recycledSamples, total_size >>
  /\ PoolFrame

\* line 159 and line 161 of sample_resize: total_size is loaded
Resize_Load(t) ==
  /\ \/ threads[t].at = "own"
        /\ samples[threads[t].sample].maxSize = SampleInitialSize
        /\ threads' = [threads EXCEPT ![t].reg = total_size, ![t].at = "resize_sub"]
     \/ /\ threads[t].at = "resize_load"
        /\ threads' = [threads EXCEPT ![t].reg = total_size, ![t].at = "resize_add"]
  /\ UNCHANGED << samples, recycledSamples, total_size, sampleMutex >>
  /\ PoolFrame

\* lines 159-160: total_size -= sample->maxSize, the store; maxSize = newSize
Resize_Sub(t) ==
  /\ threads[t].at = "resize_sub"
  /\ LET s == threads[t].sample
     IN /\ total_size' = threads[t].reg - samples[s].maxSize
        /\ samples' = [samples EXCEPT ![s].maxSize = 2 * (SampleInitialSize + PacketSize)]
  /\ threads' = [threads EXCEPT ![t].at = "resize_load"]
  /\ UNCHANGED << recycledSamples, sampleMutex >>
  /\ PoolFrame

\* line 161: total_size += newSize, the store
Resize_Add(t) ==
  /\ threads[t].at = "resize_add"
  /\ total_size' = threads[t].reg + samples[threads[t].sample].maxSize
  /\ threads' = [threads EXCEPT ![t].at = "own"]
  /\ UNCHANGED << samples, recycledSamples, sampleMutex >>
  /\ PoolFrame

\* line 141: pthread_mutex_lock in sample_destroy
Destroy_Lock(t) ==
  /\ threads[t].at = "own"
  /\ MutexAvailable
  /\ sampleMutex' = t
  /\ threads' = [threads EXCEPT ![t].at = "destroy_link"]
  /\ UNCHANGED << samples, recycledSamples, total_size >>
  /\ PoolFrame

\* line 143: sample->next = recycledSamples
Destroy_Link(t) ==
  /\ threads[t].at = "destroy_link"
  /\ samples' = [samples EXCEPT ![threads[t].sample].next = recycledSamples]
  /\ threads' = [threads EXCEPT ![t].at = "destroy_head"]
  /\ UNCHANGED << recycledSamples, total_size, sampleMutex >>
  /\ PoolFrame

\* line 144: recycledSamples = sample
Destroy_Head(t) ==
  /\ threads[t].at = "destroy_head"
  /\ recycledSamples' = threads[t].sample
  /\ threads' = [threads EXCEPT ![t].at = "destroy_unlock"]
  /\ UNCHANGED << samples, total_size, sampleMutex >>
  /\ PoolFrame

\* line 150: pthread_mutex_unlock in sample_destroy
Destroy_Unlock(t) ==
  /\ threads[t].at = "destroy_unlock"
  /\ sampleMutex' = NULL
  /\ threads' = [threads EXCEPT ![t].at = "out", ![t].sample = NULL]
  /\ UNCHANGED << samples, recycledSamples, total_size >>
  /\ PoolFrame

PoolNext ==
  \E t \in Threads :
    \/ Create_Lock(t)
    \/ Create_Test(t)
    \/ Create_Unlink(t)
    \/ Create_Alloc(t)
    \/ Create_Add(t)
    \/ Create_Unlock(t)
    \/ Resize_Load(t)
    \/ Resize_Sub(t)
    \/ Resize_Add(t)
    \/ Destroy_Lock(t)
    \/ Destroy_Link(t)
    \/ Destroy_Head(t)
    \/ Destroy_Unlock(t)

PoolSpec == PoolInit /\ [][PoolNext]_vars

\* thread t is between the lock and the unlock of sample_create or sample_destroy
InPool(t) ==
  threads[t].at \in {"create_test", "create_unlink", "create_alloc", "create_add",
                     "create_unlock", "destroy_link", "destroy_head", "destroy_unlock"}

\* thread t has the sample of its local variable: sample_create has taken it
\* off the free list or allocated it, sample_destroy has not yet linked it
Holds(t) ==
  threads[t].at \in {"create_add", "create_unlock", "own", "resize_sub", "resize_load",
                     "resize_add", "destroy_link"}

\* C37: with several threads in the pool functions, under every
\* interleaving: at most one thread is between lock and unlock, and it holds
\* the mutex; no sample is held by two threads; the free list ends and has no
\* sample twice; and whenever the mutex is free every sample is either held
\* by exactly one thread or once on the free list.
C37_PoolMutualExclusion ==
  /\ \A t \in Threads : InPool(t) => sampleMutex = t
  /\ \A t1, t2 \in Threads :
       (t1 # t2 /\ Holds(t1) /\ Holds(t2)) => threads[t1].sample # threads[t2].sample
  /\ Len(FreeList) <= Len(samples)
  /\ \A i, j \in 1..Len(FreeList) : FreeList[i] = FreeList[j] => i = j
  /\ sampleMutex = NULL =>
       \A s \in 1..Len(samples) :
         Cardinality({t \in Threads : Holds(t) /\ threads[t].sample = s})
         + Cardinality({i \in 1..Len(FreeList) : FreeList[i] = s}) = 1

\* a thread has taken from the free list a sample that the other thread grew
\* and released, while the other thread holds another sample
C37_Witness ==
  \E t1, t2 \in Threads :
    /\ t1 # t2
    /\ threads[t1].at = "create_unlock"
    /\ samples[threads[t1].sample].maxSize > SampleInitialSize
    /\ threads[t2].at \in {"own", "resize_sub", "resize_load", "resize_add"}
    /\ Len(samples) = 2

-----------------------------------------------------------------------------
\* C38: in every reachable state and for each type, sampleLastNext[type] is
\* &sampleHead[type] when the queue is empty and otherwise &last->next of the
\* last queued sample, whose next is NULL; so the tail pointer is back on the
\* head slot once the last sample has been handed out, and every unit
\* enqueued and not yet handed out is reachable from the head.
C38_TailPointer ==
  \A t \in Types :
    LET q == QueueSamples(t)
    IN /\ Len(q) = Len(hist.enq[t]) - Len(hist.deq[t])
       /\ IF q = << >>
          THEN tsp.sampleLastNext[t] = HeadSlot(t)
          ELSE /\ tsp.sampleLastNext[t] = NextSlot(q[Len(q)])
               /\ samples[q[Len(q)]].next = NULL

\* a read that found the queue empty after an earlier read had handed out
\* its last sample has parsed on, and the sample enqueued since then is at
\* the head
C38_Witness ==
  \E t \in Types :
    /\ pc.op = "readTail" /\ pc.type = t
    /\ Len(hist.deq[t]) >= 1
    /\ Len(QueueSamples(t)) = 1
    /\ tsp.sampleHead[t] # NULL

=============================================================================
